---- MODULE Spec2Model ----
(***************************************************************************)
(* Verification model of overpass-minimal: the concurrent string interner  *)
(* and its read form (src/src/model.rs), pass 3 of the preprocessor with   *)
(* the tag-set interner and the cache file handling of load_or_preprocess  *)
(* (src/src/preprocessor.rs).                                              *)
(*                                                                         *)
(* Strings are sequences of one-letter strings, so that the pool/offsets/  *)
(* lengths layout of the read form is a real slicing of a byte buffer.     *)
(***************************************************************************)
EXTENDS Integers, Sequences, FiniteSets, TLC

VARIABLES
    \* ---- ConcurrentInterner (model.rs:145-149) and its callers
    ci_map,        \* DashMap<String, u32>
    ci_reverse,    \* DashMap<u32, String>
    ci_next_id,    \* AtomicU32
    pc,            \* per worker: the statement it is about to execute
    arg,           \* per worker: the `s` of the running get_or_intern call
    id,            \* per worker: the local `id` of the running call
    result,        \* per worker: the value the last finished call returned
    returned,      \* every (string, id) some get_or_intern call has returned
    calls,         \* number of get_or_intern calls started by InternCall
    \* ---- StringInterner, the read form (model.rs:35-40)
    interner,      \* [map, pool, offsets, lengths]
    converted,     \* into_string_interner has run
    locks,         \* the four RwLocks of the read form: who holds each
    lk,            \* per worker: idx, start, len and result of a running lookup
    \* ---- preprocess, pass 3 and what follows it (preprocessor.rs:204-389)
    pbf,           \* the records of the input PBF
    config,        \* config.filters: [primary_keys, attribute_keys]
    node_coords,   \* the frozen FxHashMap<u64, (f32, f32)> pass 3 reads
    todo,          \* blobs no pass-3 worker has taken yet
    frame,         \* per worker: the locals of the pass-3 map closure
    tag_set_map,   \* DashMap<Vec<(u32, u32)>, u32>
    tag_set_reverse, \* DashMap<u32, Vec<(u32, u32)>>
    tag_set_counter, \* AtomicU32
    ts_returned,   \* every (sequence, id) some get_tag_set_id call has returned
    elements,      \* the reduced Vec<Element>, each element with the record, the
                   \* segment and the tag sequence it came from (its order is that
                   \* of the reduction, which nothing reads)
    segments_skipped, \* AtomicUsize
    tag_sets,      \* FlatTagSets: [data, offsets, lengths]
    materialized,  \* the flat store has been built
    cache_file,    \* the file at cache_dir/data.bin.zst
    lpc,           \* where the run of load_or_preprocess stands
    runs,          \* runs of load_or_preprocess started so far
    source_hash,   \* the fingerprint the run computed
    cache_data,    \* the CacheData the run is saving
    found,         \* what the run found at the cache path
    outcome,       \* what the last run returned
    runtime,       \* config.runtime: [drop_interner_map]
    \* ---- preprocess, pass 1 (preprocessor.rs:96-143)
    p1_todo,       \* blobs no pass-1 worker has taken yet
    p1_frame,      \* per worker: the blob it folds, the next record, the accumulator
    p1_partials,   \* the folded blobs the reduction has not combined yet
    node_count,    \* AtomicUsize
    required_nodes, \* the RoaringTreemap par_map_reduce returned, once it has
    \* ---- preprocess, pass 2 and the compaction (preprocessor.rs:146-202)
    ppc,           \* where the thread that runs preprocess stands
    p2_todo,       \* blobs no pass-2 worker has taken yet
    p2_frame,      \* per worker: the blob it folds and the next record
    coords,        \* the DashMap<u64, (f32, f32)> pass 2 fills
    coords_stored, \* AtomicUsize
    node_count_pass2, \* AtomicUsize
    shortfall,     \* the counts of the shortfall warnings logged
    \* ---- calculate_source_hash on two inputs (preprocessor.rs:67-87)
    hs_in,         \* two configurations, each with the metadata of its PBF
    hs_out,        \* the two fingerprints, once computed
    \* ---- the query server (api.rs)
    app,           \* AppState: the elements of the RTree, tag_sets, interner
    request,       \* QueryParams of the query being handled, if any
    response       \* the elements array of the last QueryResponse, if any

ciVars == <<ci_map, ci_reverse, ci_next_id, pc, arg, id, result, returned, calls>>
siVars == <<interner, converted>>
rwVars == <<locks, lk>>
p3Vars == <<pbf, config, node_coords, todo, frame, tag_set_map, tag_set_reverse,
            tag_set_counter, ts_returned, elements, segments_skipped, tag_sets, materialized>>
p3Rest == <<node_coords, todo, frame, tag_set_map, tag_set_reverse, tag_set_counter,
           ts_returned, elements, segments_skipped, tag_sets, materialized>>
caVars == <<cache_file, lpc, runs, source_hash, cache_data, found, outcome, runtime>>
p1Vars == <<p1_todo, p1_frame, p1_partials, node_count, required_nodes>>
p2Vars == <<ppc, p2_todo, p2_frame, coords, coords_stored, node_count_pass2, shortfall>>
hsVars == <<hs_in, hs_out>>
apVars == <<app, request, response>>
vars == <<ciVars, siVars, rwVars, p3Vars, caVars, p1Vars, p2Vars, hsVars, apVars>>
\* what the ConcurrentInterner's operations never touch
ciRest == <<siVars, rwVars, p3Vars, caVars, p1Vars, p2Vars, hsVars, apVars>>

(***************************************************************************)
(* Bounds of the model.                                                    *)
(***************************************************************************)
NumWorkers == 2
MaxCalls == 4

Workers == 1..NumWorkers

(***************************************************************************)
(* Strings and partial maps.                                               *)
(***************************************************************************)
EmptyString == << >>
S_highway == <<"h", "w">>
S_name == <<"n">>
S_residential == <<"r">>
S_main == <<"M", "n">>
S_surface == <<"s">>
InternStrings == {S_highway, S_name, S_main}

EmptyMap == [x \in {} |-> 0]
Put(f, k, v) == [x \in DOMAIN f \cup {k} |-> IF x = k THEN v ELSE f[x]]

(***************************************************************************)
(* The input PBF: the records osmpbf yields.  Positions are in the PBF's   *)
(* integer units of 1e-7 degree.                                           *)
(***************************************************************************)
Node(i, lat, lon, tags) ==
    [kind |-> "node", id |-> i, lat |-> lat, lon |-> lon, refs |-> << >>, tags |-> tags]
Way(i, refs, tags) ==
    [kind |-> "way", id |-> i, lat |-> 0, lon |-> 0, refs |-> refs, tags |-> tags]

T_highway == <<S_highway, S_residential>>
T_name == <<S_name, S_main>>
T_surface == <<S_surface, S_residential>>

\* osmpbf hands the blobs of the file to the workers of par_map_reduce and
\* folds the records of one blob in order: a file is a sequence of blobs, a
\* blob a sequence of records.
\* Nodes that all carry the same single tag.
F_same ==
    << << Node(1, 0, 0, <<T_highway>>), Node(3, 0, 20000, <<T_highway>>),
          Node(5, 0, 40000, <<T_highway>>) >>,
       << Node(2, 0, 10000, <<T_highway>>), Node(4, 0, 30000, <<T_highway>>),
          Node(6, 0, 50000, <<T_highway>>) >> >>
\* The same two tags in both orders, and a node with the attribute key only.
F_order ==
    << << Node(1, 488000001, 23000000, <<T_highway, T_name>>), Node(3, 0, 20000, <<T_name>>),
          Node(5, 0, 40000, <<T_highway, T_name>>) >>,
       << Node(2, 0, 10000, <<T_name, T_highway>>), Node(4, 0, 30000, << >>),
          Node(6, 0, 50000, << >>) >> >>
\* Untagged nodes, and ways over present and absent nodes.
F_way ==
    << << Node(1, 0, 0, << >>), Node(2, 0, 10000, << >>), Node(3, 0, 20000, << >>) >>,
       << Way(42, <<1, 2, 9>>, <<T_highway, T_name>>), Way(43, <<2, 8>>, <<T_name>>),
          Way(44, <<3, 3>>, <<T_highway>>) >> >>

\* Two tag sequences, each met by both blobs; a tag under no configured key.
F_two ==
    << << Node(1, 0, 0, <<T_highway>>), Node(3, 0, 20000, <<T_surface, T_highway, T_name>>),
          Node(5, 0, 40000, << >>) >>,
       << Node(2, 0, 10000, <<T_highway>>), Node(4, 0, 30000, <<T_highway, T_surface, T_name>>),
          Node(6, 0, 50000, << >>) >> >>
\* Ways of one ref, of two segments and of no ref.
F_geometry ==
    << << Node(1, 0, 0, << >>), Node(2, 0, 10000, << >>), Node(3, 0, 20000, << >>) >>,
       << Way(45, <<1>>, <<T_highway>>), Way(46, <<1, 2, 1>>, <<T_highway>>),
          Way(47, << >>, <<T_highway>>) >> >>

\* A node record that occurs twice, and a way over it and an absent node.
F_dup ==
    << << Node(1, 0, 0, << >>), Node(1, 0, 0, << >>) >>,
       << Way(48, <<1, 9>>, <<T_highway>>) >> >>
\* A way that names one node twice in a row, then a node whose position is
\* the same f32 pair, then a node elsewhere; positions around 2^24.
F_loop ==
    << << Node(1, 16777216, 0, << >>), Node(2, 16777217, 0, << >>) >>,
       << Node(3, 16777220, 2, << >>) >>,
       << Way(49, <<1, 1, 2, 3>>, <<T_highway>>) >> >>
PbfFiles == {F_same, F_order, F_way, F_two, F_geometry}

MaxBlobLen == 2
Blobs == DOMAIN pbf
\* the records of blob b
BlobRecords(b) == 1..(IF Len(pbf[b]) < MaxBlobLen THEN Len(pbf[b]) ELSE MaxBlobLen)
Records == {x \in Blobs \X (1..MaxBlobLen) : x[2] \in BlobRecords(x[1])}
Rec(x) == pbf[x[1]][x[2]]

DefaultFilters == [primary_keys |-> <<S_highway>>, attribute_keys |-> <<S_name>>]

Range(seq) == {seq[i] : i \in DOMAIN seq}
\* `primary_keys_set`, `attribute_keys_set` (preprocessor.rs:209-210)
primary_keys_set == Range(config.primary_keys)
attribute_keys_set == Range(config.attribute_keys)

(***************************************************************************)
(* `as f32`: round to the nearest value with a 24-bit mantissa, ties to    *)
(* even.                                                                   *)
(***************************************************************************)
MantissaBits == 24

RECURSIVE Pow2(_)
Pow2(n) == IF n = 0 THEN 1 ELSE 2 * Pow2(n - 1)

RECURSIVE Ulp(_, _)
Ulp(x, u) == IF x < Pow2(MantissaBits) * u THEN u ELSE Ulp(x, 2 * u)

RoundTo(x, u) ==
    LET q == x \div u
        r == x % u
    IN  IF 2 * r < u THEN q * u
        ELSE IF 2 * r > u THEN (q + 1) * u
        ELSE IF q % 2 = 0 THEN q * u ELSE (q + 1) * u

AsF32(x) == IF x < 0 THEN 0 - RoundTo(0 - x, Ulp(0 - x, 1)) ELSE RoundTo(x, Ulp(x, 1))

(***************************************************************************)
(* What passes 1 and 2 leave for pass 3: the coordinates of the required   *)
(* nodes (preprocessor.rs:100-202).                                        *)
(***************************************************************************)
HasPrimary(r) == \E i \in DOMAIN r.tags : r.tags[i][1] \in primary_keys_set

RequiredNodes ==
    UNION {IF ~HasPrimary(Rec(r)) THEN {}
           ELSE IF Rec(r).kind = "way" THEN Range(Rec(r).refs)
           ELSE {Rec(r).id} : r \in Records}

CompactCoords ==
    LET nodes == {r \in Records : Rec(r).kind = "node" /\ Rec(r).id \in RequiredNodes}
    IN  [n \in {Rec(r).id : r \in nodes} |->
            LET r == CHOOSE q \in nodes : Rec(q).id = n
            IN  <<AsF32(Rec(r).lat), AsF32(Rec(r).lon)>>]

(***************************************************************************)
(* Pass 1 (preprocessor.rs:96-143): par_map_reduce over the records.  A    *)
(* worker takes a blob, folds the map closure's results over the blob's    *)
(* records from the identity, and the folded blobs are combined with the   *)
(* reduce closure in whatever order the thread pool pairs them.            *)
(***************************************************************************)
p1Rest == <<ciVars, siVars, rwVars, p3Vars, caVars, p2Vars, hsVars, apVars>>

NoFold == [blob |-> 0, next |-> 0, acc |-> {}]

\* The closure's result without the test on the node's tags.
LocalRequired_EveryNode(r) ==
    IF r.kind = "way"
    THEN IF HasPrimary(r) THEN Range(r.refs) ELSE {}
    ELSE {r.id}

\* `local_required` of the map closure for record r
LocalRequired(r) ==
    IF r.kind = "way"
    THEN IF HasPrimary(r) THEN Range(r.refs) ELSE {}
    ELSE IF HasPrimary(r) THEN {r.id} ELSE {}

\* `local_count` of the map closure for record r
LocalCount(r) == IF r.kind = "node" THEN 1 ELSE 0

\* A worker takes a blob and starts its fold from `RoaringTreemap::new()`.
P1Take(w) ==
    /\ p1_frame[w] = NoFold
    /\ required_nodes = {}
    /\ \E b \in p1_todo :
          /\ p1_todo' = p1_todo \ {b}
          /\ p1_frame' = [p1_frame EXCEPT ![w] = [blob |-> b, next |-> 1, acc |-> {}]]
    /\ UNCHANGED <<p1_partials, node_count, required_nodes, p1Rest>>

\* The map closure on the next record of the blob, its result reduced into
\* the fold's accumulator: `a |= b`.
P1Map(w) ==
    /\ p1_frame[w] # NoFold
    /\ p1_frame[w].next \in BlobRecords(p1_frame[w].blob)
    /\ LET r == Rec(<<p1_frame[w].blob, p1_frame[w].next>>)
       IN  /\ node_count' = node_count + LocalCount(r)
           /\ p1_frame' = [p1_frame EXCEPT ![w].acc = @ \cup LocalRequired(r),
                                           ![w].next = @ + 1]
    /\ UNCHANGED <<p1_todo, p1_partials, required_nodes, p1Rest>>

\* The blob is exhausted: its fold is handed to the reduction.
P1Fold(w) ==
    /\ p1_frame[w] # NoFold
    /\ p1_frame[w].next \notin BlobRecords(p1_frame[w].blob)
    /\ p1_partials' = p1_partials \cup {[blobs |-> {p1_frame[w].blob}, required |-> p1_frame[w].acc]}
    /\ p1_frame' = [p1_frame EXCEPT ![w] = NoFold]
    /\ UNCHANGED <<p1_todo, node_count, required_nodes, p1Rest>>

\* The reduce closure on two results: `|mut a, b| { a |= b; a }`.
P1Reduce ==
    /\ \E a \in p1_partials : \E b \in p1_partials \ {a} :
          p1_partials' = (p1_partials \ {a, b})
                         \cup {[blobs |-> a.blobs \cup b.blobs, required |-> a.required \cup b.required]}
    /\ UNCHANGED <<p1_todo, p1_frame, node_count, required_nodes, p1Rest>>

\* Every blob is folded and one result is left: par_map_reduce returns it.
P1Return ==
    /\ required_nodes = {}
    /\ p1_todo = {}
    /\ \A w \in Workers : p1_frame[w] = NoFold
    /\ \E a \in p1_partials :
          /\ p1_partials = {a}
          /\ required_nodes' = {a.required}
    /\ p1_partials' = {}
    /\ UNCHANGED <<p1_todo, p1_frame, node_count, p1Rest>>

NoScan == [blob |-> 0, next |-> 0]

(***************************************************************************)
(* Pass 2 and the compaction (preprocessor.rs:146-202), in the order in    *)
(* which the thread of preprocess reaches them: `ppc` is the statement it  *)
(* is at.  The reduction of pass 2 combines units.                         *)
(***************************************************************************)
p2Rest == <<ciVars, siVars, rwVars, p3Vars, caVars, p1Vars, hsVars, apVars>>

\* The set pass 1 returned (nothing before it has).
Required == UNION required_nodes

\* Pass 2 begins without the result of pass 1.
P2Start_Early ==
    /\ ppc = "pass1"
    /\ ppc' = "pass2"
    /\ p2_todo' = Blobs
    /\ UNCHANGED <<p2_frame, coords, coords_stored, node_count_pass2, shortfall, p2Rest>>

\* par_map_reduce of pass 1 has returned: `ElementReader::from_path` and
\* `reader_pass2.par_map_reduce(`
P2Start ==
    /\ ppc = "pass1"
    /\ required_nodes # {}
    /\ ppc' = "pass2"
    /\ p2_todo' = Blobs
    /\ UNCHANGED <<p2_frame, coords, coords_stored, node_count_pass2, shortfall, p2Rest>>

P2Take(w) ==
    /\ ppc = "pass2"
    /\ p2_frame[w] = NoScan
    /\ \E b \in p2_todo :
          /\ p2_todo' = p2_todo \ {b}
          /\ p2_frame' = [p2_frame EXCEPT ![w] = [blob |-> b, next |-> 1]]
    /\ UNCHANGED <<ppc, coords, coords_stored, node_count_pass2, shortfall, p2Rest>>

\* The map closure on the next record of the blob: a node whose id is
\* required has its position inserted and counted.
P2Map(w) ==
    /\ p2_frame[w] # NoScan
    /\ p2_frame[w].next \in BlobRecords(p2_frame[w].blob)
    /\ LET r == Rec(<<p2_frame[w].blob, p2_frame[w].next>>)
       IN  /\ IF r.kind = "node" /\ r.id \in Required
              THEN /\ coords' = Put(coords, r.id, <<AsF32(r.lat), AsF32(r.lon)>>)
                   /\ coords_stored' = coords_stored + 1
              ELSE UNCHANGED <<coords, coords_stored>>
           /\ node_count_pass2' = node_count_pass2 + LocalCount(r)
    /\ p2_frame' = [p2_frame EXCEPT ![w].next = @ + 1]
    /\ UNCHANGED <<ppc, p2_todo, shortfall, p2Rest>>

\* The blob is exhausted.
P2Fold(w) ==
    /\ p2_frame[w] # NoScan
    /\ p2_frame[w].next \notin BlobRecords(p2_frame[w].blob)
    /\ p2_frame' = [p2_frame EXCEPT ![w] = NoScan]
    /\ UNCHANGED <<ppc, p2_todo, coords, coords_stored, node_count_pass2, shortfall, p2Rest>>

\* par_map_reduce of pass 2 has returned: the shortfall warning
\* (preprocessor.rs:187-191)
P2Return ==
    /\ ppc = "pass2"
    /\ p2_todo = {}
    /\ \A w \in Workers : p2_frame[w] = NoScan
    /\ shortfall' = IF coords_stored < Cardinality(Required)
                    THEN Append(shortfall, Cardinality(Required) - coords_stored)
                    ELSE shortfall
    /\ ppc' = "compact"
    /\ UNCHANGED <<p2_todo, p2_frame, coords, coords_stored, node_count_pass2, p2Rest>>

\* The DashMap is copied to the FxHashMap that pass 3 reads, and pass 3
\* begins (preprocessor.rs:193-233).
Compact ==
    /\ ppc = "compact"
    /\ node_coords' = coords
    /\ todo' = Blobs
    /\ ppc' = "pass3"
    /\ UNCHANGED <<p2_todo, p2_frame, coords, coords_stored, node_count_pass2, shortfall,
                   ciVars, siVars, rwVars, pbf, config, frame, tag_set_map, tag_set_reverse,
                   tag_set_counter, ts_returned, elements, segments_skipped, tag_sets,
                   materialized, caVars, p1Vars, hsVars, apVars>>

\* The passes are over and the read form is built: preprocess goes on to
\* save the cache (preprocessor.rs:391-394).
PassesDone ==
    /\ ppc = "pass3"
    /\ converted
    /\ lpc = "passes"
    /\ lpc' = "create"
    /\ ppc' = "save"
    /\ UNCHANGED <<p2_todo, p2_frame, coords, coords_stored, node_count_pass2, shortfall,
                   ciVars, siVars, rwVars, p3Vars, cache_file, runs, source_hash, cache_data,
                   found, outcome, runtime, p1Vars, hsVars, apVars>>

(***************************************************************************)
(* Pass 3, the map closure (preprocessor.rs:233-344).  The three branches  *)
(* (Node, DenseNode, Way) extract the tags with the same loop.  A worker's *)
(* steps are its accesses to the shared maps and counters; what it does    *)
(* between two of them on its own locals belongs to the earlier one.       *)
(***************************************************************************)
NoFrame ==
    [blob |-> 0, rec |-> 0, ti |-> 0, want |-> "direct", kid |-> 0, has_primary |-> FALSE,
     extracted_tags |-> << >>, tag_set_id |-> 0]

\* Only the primary keys are extracted.
Selected_PrimaryOnly(k) == k \in primary_keys_set

\* The `for (k, v) in tags()` loop skips a tag whose key is in neither set.
Selected(k) == k \in primary_keys_set \/ k \in attribute_keys_set

RECURSIVE NextTag(_, _)
NextTag(tags, i) ==
    IF i > Len(tags) THEN i
    ELSE IF Selected(tags[i][1]) THEN i
    ELSE NextTag(tags, i + 1)

\* A record none of whose tags is selected calls nothing and emits nothing:
\* the next record of blob b, from k on, that has a selected tag.
RECURSIVE NextRecord(_, _)
NextRecord(b, k) ==
    IF k \notin BlobRecords(b) THEN k
    ELSE IF NextTag(pbf[b][k].tags, 1) <= Len(pbf[b][k].tags) THEN k
    ELSE NextRecord(b, k + 1)

\* Worker w goes on with record k of blob b: get_or_intern is called for the
\* first selected key of the next record that has one; with no such record
\* the blob is done.
StartRecord(w, b, k) ==
    LET n == NextRecord(b, k)
    IN  IF n \in BlobRecords(b)
        THEN LET tags == pbf[b][n].tags
                 i == NextTag(tags, 1)
             IN  /\ frame' = [frame EXCEPT ![w] =
                        [blob |-> b, rec |-> n, ti |-> i, want |-> "key", kid |-> 0,
                         has_primary |-> tags[i][1] \in primary_keys_set,
                         extracted_tags |-> << >>, tag_set_id |-> 0]]
                 /\ arg' = [arg EXCEPT ![w] = tags[i][1]]
                 /\ pc' = [pc EXCEPT ![w] = "ci_get"]
        ELSE /\ frame' = [frame EXCEPT ![w] = NoFrame]
             /\ arg' = [arg EXCEPT ![w] = EmptyString]
             /\ pc' = [pc EXCEPT ![w] = "idle"]

\* The tag loop without the gate on has_primary.
TagLoop_NoGate(w, i, ex) ==
    LET b == frame[w].blob
        k == frame[w].rec
        tags == pbf[b][k].tags
        n == NextTag(tags, i)
    IN  IF n <= Len(tags)
        THEN /\ frame' = [frame EXCEPT ![w].ti = n, ![w].want = "key", ![w].kid = 0,
                                       ![w].has_primary = @ \/ tags[n][1] \in primary_keys_set,
                                       ![w].extracted_tags = ex]
             /\ arg' = [arg EXCEPT ![w] = tags[n][1]]
             /\ pc' = [pc EXCEPT ![w] = "ci_get"]
        ELSE IF frame[w].has_primary \/ ex # << >>
        THEN /\ frame' = [frame EXCEPT ![w].ti = n, ![w].want = "direct", ![w].kid = 0,
                                       ![w].extracted_tags = ex]
             /\ arg' = [arg EXCEPT ![w] = EmptyString]
             /\ pc' = [pc EXCEPT ![w] = "ts_get"]
        ELSE StartRecord(w, b, k + 1)

\* Continue the tag loop of worker w at tag i with `extracted_tags` ex: call
\* get_or_intern for the next selected key, or leave the loop; then
\* get_tag_set_id is called `if has_primary`, else the record is done.
TagLoop(w, i, ex) ==
    LET b == frame[w].blob
        k == frame[w].rec
        tags == pbf[b][k].tags
        n == NextTag(tags, i)
    IN  IF n <= Len(tags)
        THEN /\ frame' = [frame EXCEPT ![w].ti = n, ![w].want = "key", ![w].kid = 0,
                                       ![w].has_primary = @ \/ tags[n][1] \in primary_keys_set,
                                       ![w].extracted_tags = ex]
             /\ arg' = [arg EXCEPT ![w] = tags[n][1]]
             /\ pc' = [pc EXCEPT ![w] = "ci_get"]
        ELSE IF frame[w].has_primary
        THEN /\ frame' = [frame EXCEPT ![w].ti = n, ![w].want = "direct", ![w].kid = 0,
                                       ![w].extracted_tags = ex]
             /\ arg' = [arg EXCEPT ![w] = EmptyString]
             /\ pc' = [pc EXCEPT ![w] = "ts_get"]
        ELSE StartRecord(w, b, k + 1)

\* A worker receives a blob of the PBF.
P3Take(w) ==
    /\ pc[w] = "idle"
    /\ ~materialized
    /\ \E b \in todo :
          /\ todo' = todo \ {b}
          /\ StartRecord(w, b, 1)
    /\ UNCHANGED <<ci_map, ci_reverse, ci_next_id, id, result, returned, calls, siVars, rwVars,
                   pbf, config, caVars, p1Vars, p2Vars, hsVars, apVars, node_coords, tag_set_map, tag_set_reverse, tag_set_counter,
                   ts_returned, elements, segments_skipped, tag_sets, materialized>>

\* `let kid = interner.get_or_intern(k);` returned i: `get_or_intern(v)` is called.
KeyInterned(w, i) ==
    /\ frame' = [frame EXCEPT ![w].kid = i, ![w].want = "val"]
    /\ arg' = [arg EXCEPT ![w] = pbf[frame[w].blob][frame[w].rec].tags[frame[w].ti][2]]
    /\ pc' = [pc EXCEPT ![w] = "ci_get"]

\* `let vid = interner.get_or_intern(v);` returned i: `extracted_tags.push((kid, vid));`
ValInterned(w, i) ==
    TagLoop(w, frame[w].ti + 1, Append(frame[w].extracted_tags, <<frame[w].kid, i>>))

(***************************************************************************)
(* ConcurrentInterner::get_or_intern (model.rs:156-167), one action per    *)
(* access to the shared maps or the counter.                               *)
(***************************************************************************)
\* The call returns i to its caller: a direct caller, or the tag loop of pass 3.
CiReturn(w, i) ==
    /\ returned' = returned \cup {<<arg[w], i>>}
    /\ id' = [id EXCEPT ![w] = 0]
    /\ CASE frame[w].want = "key" -> KeyInterned(w, i) /\ UNCHANGED result
         [] frame[w].want = "val" -> ValInterned(w, i) /\ UNCHANGED result
         [] OTHER -> /\ result' = [result EXCEPT ![w] = i]
                     /\ pc' = [pc EXCEPT ![w] = "ci_ret"]
                     /\ UNCHANGED <<arg, frame>>

ciShared == <<pbf, config, caVars, p1Vars, p2Vars, hsVars, apVars, node_coords, todo, tag_set_map, tag_set_reverse, tag_set_counter,
              ts_returned, elements, segments_skipped, tag_sets, materialized, siVars, rwVars>>

\* `if let Some(id) = self.map.get(s) { return *id; }`
CiGet(w) ==
    /\ pc[w] = "ci_get"
    /\ IF arg[w] \in DOMAIN ci_map
       THEN CiReturn(w, ci_map[arg[w]])
       ELSE /\ pc' = [pc EXCEPT ![w] = "ci_fetch"]
            /\ UNCHANGED <<arg, id, result, returned, frame>>
    /\ UNCHANGED <<ci_map, ci_reverse, ci_next_id, calls, ciShared>>

\* The counter is read and not advanced.
CiFetchAdd_Load(w) ==
    /\ pc[w] = "ci_fetch"
    /\ id' = [id EXCEPT ![w] = ci_next_id]
    /\ ci_next_id' = ci_next_id
    /\ pc' = [pc EXCEPT ![w] = "ci_insert"]
    /\ UNCHANGED <<ci_map, ci_reverse, arg, result, returned, calls, frame, ciShared>>

\* `let id = self.next_id.fetch_add(1, Ordering::Relaxed);`
CiFetchAdd(w) ==
    /\ pc[w] = "ci_fetch"
    /\ id' = [id EXCEPT ![w] = ci_next_id]
    /\ ci_next_id' = ci_next_id + 1
    /\ pc' = [pc EXCEPT ![w] = "ci_insert"]
    /\ UNCHANGED <<ci_map, ci_reverse, arg, result, returned, calls, frame, ciShared>>

\* `if let Some(prev) = self.map.insert(s.to_string(), id) { return prev; }`
\* DashMap::insert stores the new value and hands back the one it replaced.
CiInsert(w) ==
    /\ pc[w] = "ci_insert"
    /\ ci_map' = Put(ci_map, arg[w], id[w])
    /\ IF arg[w] \in DOMAIN ci_map
       THEN CiReturn(w, ci_map[arg[w]])
       ELSE /\ pc' = [pc EXCEPT ![w] = "ci_rev"]
            /\ UNCHANGED <<arg, id, result, returned, frame>>
    /\ UNCHANGED <<ci_reverse, ci_next_id, calls, ciShared>>

\* `self.reverse.insert(id, s.to_string()); id`
CiReverseInsert(w) ==
    /\ pc[w] = "ci_rev"
    /\ ci_reverse' = Put(ci_reverse, id[w], arg[w])
    /\ CiReturn(w, id[w])
    /\ UNCHANGED <<ci_map, ci_next_id, calls, ciShared>>

\* A worker calls get_or_intern(s) directly ...
InternCall(w) ==
    /\ pc[w] = "idle"
    /\ ~converted
    /\ calls < MaxCalls
    /\ \E s \in InternStrings : arg' = [arg EXCEPT ![w] = s]
    /\ calls' = calls + 1
    /\ pc' = [pc EXCEPT ![w] = "ci_get"]
    /\ UNCHANGED <<ci_map, ci_reverse, ci_next_id, id, result, returned, ciRest>>

\* ... and receives the id.
InternReturn(w) ==
    /\ pc[w] = "ci_ret"
    /\ pc' = [pc EXCEPT ![w] = "idle"]
    /\ arg' = [arg EXCEPT ![w] = EmptyString]
    /\ result' = [result EXCEPT ![w] = 0]
    /\ UNCHANGED <<ci_map, ci_reverse, ci_next_id, id, returned, calls, ciRest>>

(***************************************************************************)
(* Emission (preprocessor.rs:254-263, 308-336) and the reduction           *)
(* (preprocessor.rs:340-349).                                              *)
(***************************************************************************)
Element(i, c1, c2, ts) == [id |-> i, coordinates |-> <<c1, c2>>, tag_set_id |-> ts]

\* `0..way_nodes.len().saturating_sub(1)`
SegmentIndexes(refs) == 1..(IF Len(refs) = 0 THEN 0 ELSE Len(refs) - 1)
Found(refs, i) == refs[i] \in DOMAIN node_coords /\ refs[i + 1] \in DOMAIN node_coords

\* The endpoints of a segment in the reverse of the ref order.
LocalElements_Reversed(r, ts) ==
    IF r.kind = "node"
    THEN {[seg |-> 1,
           el |-> Element(r.id, <<AsF32(r.lat), AsF32(r.lon)>>, <<AsF32(r.lat), AsF32(r.lon)>>, ts)]}
    ELSE {[seg |-> k,
           el |-> Element(r.id, node_coords[r.refs[k + 1]], node_coords[r.refs[k]], ts)] :
          k \in {j \in SegmentIndexes(r.refs) : Found(r.refs, j)}}

\* `local_elements`: each element with the index of the segment it is for.
LocalElements(r, ts) ==
    IF r.kind = "node"
    THEN {[seg |-> 1,
           el |-> Element(r.id, <<AsF32(r.lat), AsF32(r.lon)>>, <<AsF32(r.lat), AsF32(r.lon)>>, ts)]}
    ELSE {[seg |-> k,
           el |-> Element(r.id, node_coords[r.refs[k]], node_coords[r.refs[k + 1]], ts)] :
          k \in {j \in SegmentIndexes(r.refs) : Found(r.refs, j)}}

\* Every pair of a way is counted once one pair has a missing coordinate.
LocalSkips_WholeWay(r) ==
    IF r.kind = "way" /\ \E k \in SegmentIndexes(r.refs) : ~Found(r.refs, k)
    THEN Cardinality(SegmentIndexes(r.refs)) ELSE 0
LocalSkips(r) ==
    IF r.kind = "way" THEN Cardinality({k \in SegmentIndexes(r.refs) : ~Found(r.refs, k)}) ELSE 0

(***************************************************************************)
(* get_tag_set_id (preprocessor.rs:217-227), one action per access to the  *)
(* shared maps or the counter.  With the id it returns the closure builds  *)
(* `local_elements`, adds `local_skips` to the counter and hands the       *)
(* elements to the reduction.                                              *)
(***************************************************************************)
TsReturn(w, i) ==
    /\ ts_returned' = ts_returned \cup {<<frame[w].extracted_tags, i>>}
    /\ LET r == <<frame[w].blob, frame[w].rec>>
       IN  /\ elements' = elements \cup
                  {[rec |-> r, seg |-> e.seg, tags |-> frame[w].extracted_tags, el |-> e.el] :
                   e \in LocalElements(Rec(r), i)}
           /\ segments_skipped' = segments_skipped + LocalSkips(Rec(r))
    /\ id' = [id EXCEPT ![w] = 0]
    /\ StartRecord(w, frame[w].blob, frame[w].rec + 1)

tsShared == <<ci_map, ci_reverse, ci_next_id, result, returned, calls, siVars, rwVars,
              pbf, config, caVars, p1Vars, p2Vars, hsVars, apVars, node_coords, todo, tag_sets, materialized>>

\* `if let Some(id) = tag_set_map.get(&tags) { return *id; }`
TsGet(w) ==
    /\ pc[w] = "ts_get"
    /\ IF frame[w].extracted_tags \in DOMAIN tag_set_map
       THEN TsReturn(w, tag_set_map[frame[w].extracted_tags])
       ELSE /\ pc' = [pc EXCEPT ![w] = "ts_fetch"]
            /\ UNCHANGED <<arg, id, frame, ts_returned, elements, segments_skipped>>
    /\ UNCHANGED <<tag_set_map, tag_set_reverse, tag_set_counter, tsShared>>

\* The counter is read and not advanced.
TsFetchAdd_Load(w) ==
    /\ pc[w] = "ts_fetch"
    /\ id' = [id EXCEPT ![w] = tag_set_counter]
    /\ tag_set_counter' = tag_set_counter
    /\ pc' = [pc EXCEPT ![w] = "ts_insert"]
    /\ UNCHANGED <<arg, frame, tag_set_map, tag_set_reverse, ts_returned, elements,
                   segments_skipped, tsShared>>

\* `let id = tag_set_counter.fetch_add(1, Ordering::Relaxed);`
TsFetchAdd(w) ==
    /\ pc[w] = "ts_fetch"
    /\ id' = [id EXCEPT ![w] = tag_set_counter]
    /\ tag_set_counter' = tag_set_counter + 1
    /\ pc' = [pc EXCEPT ![w] = "ts_insert"]
    /\ UNCHANGED <<arg, frame, tag_set_map, tag_set_reverse, ts_returned, elements,
                   segments_skipped, tsShared>>

\* `if let Some(prev) = tag_set_map.insert(tags.clone(), id) { return prev; }`
TsInsert(w) ==
    /\ pc[w] = "ts_insert"
    /\ tag_set_map' = Put(tag_set_map, frame[w].extracted_tags, id[w])
    /\ IF frame[w].extracted_tags \in DOMAIN tag_set_map
       THEN TsReturn(w, tag_set_map[frame[w].extracted_tags])
       ELSE /\ pc' = [pc EXCEPT ![w] = "ts_rev"]
            /\ UNCHANGED <<arg, id, frame, ts_returned, elements, segments_skipped>>
    /\ UNCHANGED <<tag_set_reverse, tag_set_counter, tsShared>>

\* `tag_set_reverse.insert(id, tags); id`
TsReverseInsert(w) ==
    /\ pc[w] = "ts_rev"
    /\ tag_set_reverse' = Put(tag_set_reverse, id[w], frame[w].extracted_tags)
    /\ TsReturn(w, id[w])
    /\ UNCHANGED <<tag_set_map, tag_set_counter, tsShared>>

(***************************************************************************)
(* ConcurrentInterner::into_string_interner.                               *)
(***************************************************************************)
\* `vec![String::new(); count]` overwritten by the entries of `reverse`.
ReverseVec(rev, count) ==
    [i \in 1..count |-> IF (i - 1) \in DOMAIN rev THEN rev[i - 1] ELSE EmptyString]

RECURSIVE Concat(_)
Concat(ss) == IF ss = << >> THEN << >> ELSE Head(ss) \o Concat(Tail(ss))

\* offsets.push(pool.len()): the start of entry i is the length of what precedes it.
PoolOffsets(rv) == [i \in 1..Len(rv) |-> Len(Concat(SubSeq(rv, 1, i - 1)))]
PoolLengths(rv) == [i \in 1..Len(rv) |-> Len(rv[i])]

IntoStringInternerOf(map, rev, count) ==
    LET rv == ReverseVec(rev, count)
    IN  [map |-> map, pool |-> Concat(rv),
         offsets |-> PoolOffsets(rv), lengths |-> PoolLengths(rv)]

EmptyInterner == [map |-> EmptyMap, pool |-> << >>, offsets |-> << >>, lengths |-> << >>]

IntoStringInterner ==
    /\ ~converted
    /\ \A w \in Workers : pc[w] = "idle"
    /\ interner' = IntoStringInternerOf(ci_map, ci_reverse, ci_next_id)
    /\ converted' = TRUE
    /\ UNCHANGED <<ciVars, rwVars, p3Vars, caVars, p1Vars, p2Vars, hsVars, apVars>>

(***************************************************************************)
(* StringInterner::lookup: Option<String> as a set of at most one string.  *)
(***************************************************************************)
Lookup(si, i) ==
    IF i + 1 \in DOMAIN si.offsets /\ i + 1 \in DOMAIN si.lengths
    THEN {SubSeq(si.pool, si.offsets[i + 1] + 1, si.offsets[i + 1] + si.lengths[i + 1])}
    ELSE {}

(***************************************************************************)
(* Materialization of the flat tag-set store (preprocessor.rs:359-376).    *)
(* A u64 is its two 32-bit words: `(k << 32) | val` has k as the high word *)
(* and val as the low word.                                                *)
(***************************************************************************)
Pack(k, v) == [hi |-> k, lo |-> v]
Unpack(packed) == <<packed.hi, packed.lo>>

PackAll(v) == [j \in DOMAIN v |-> Pack(v[j][1], v[j][2])]

RECURSIVE Flatten(_, _, _, _)
Flatten(rev, i, count, acc) ==
    IF i >= count THEN acc
    ELSE LET v == IF i \in DOMAIN rev THEN rev[i] ELSE << >>
         IN  Flatten(rev, i + 1, count,
                     [data |-> acc.data \o PackAll(v),
                      offsets |-> Append(acc.offsets, Len(acc.data)),
                      lengths |-> Append(acc.lengths, Len(v))])

EmptyTagSets == [data |-> << >>, offsets |-> << >>, lengths |-> << >>]

\* The store is sized by the sequences stored, not by the counter.
Materialize_Stored ==
    /\ ~materialized
    /\ todo = {}
    /\ \A w \in Workers : pc[w] = "idle"
    /\ tag_sets' = Flatten(tag_set_reverse, 0, Cardinality(DOMAIN tag_set_reverse), EmptyTagSets)
    /\ materialized' = TRUE
    /\ UNCHANGED <<ciVars, siVars, rwVars, pbf, config, caVars, p1Vars, p2Vars, hsVars, apVars, node_coords, todo, frame, tag_set_map,
                   tag_set_reverse, tag_set_counter, ts_returned, elements, segments_skipped>>

Materialize ==
    /\ ~materialized
    /\ todo = {}
    /\ \A w \in Workers : pc[w] = "idle"
    /\ tag_sets' = Flatten(tag_set_reverse, 0, tag_set_counter, EmptyTagSets)
    /\ materialized' = TRUE
    /\ UNCHANGED <<ciVars, siVars, rwVars, pbf, config, caVars, p1Vars, p2Vars, hsVars, apVars, node_coords, todo, frame, tag_set_map,
                   tag_set_reverse, tag_set_counter, ts_returned, elements, segments_skipped>>

\* `Arc::try_unwrap(interner)` ... `into_string_interner()` (preprocessor.rs:386-389)
FinalInterner ==
    /\ materialized
    /\ ~converted
    /\ interner' = IntoStringInternerOf(ci_map, ci_reverse, ci_next_id)
    /\ converted' = TRUE
    /\ UNCHANGED <<ciVars, rwVars, p3Vars, caVars, p1Vars, p2Vars, hsVars, apVars>>

\* FlatTagSets::get (model.rs:254-258) and the unpacking of api.rs:187-189
TagSetsGet(ts, idx) ==
    IF idx + 1 \in DOMAIN ts.offsets /\ idx + 1 \in DOMAIN ts.lengths
    THEN {SubSeq(ts.data, ts.offsets[idx + 1] + 1, ts.offsets[idx + 1] + ts.lengths[idx + 1])}
    ELSE {}
UnpackAll(slice) == [j \in DOMAIN slice |-> Unpack(slice[j])]

(***************************************************************************)
(* The RwLocks of the read form (parking_lot::RwLock): any number of       *)
(* readers or one writer.                                                  *)
(***************************************************************************)
LockNames == {"map", "pool", "offsets", "lengths"}
FreeLock == [writer |-> {}, readers |-> {}]
NoLookup == [idx |-> 0, start |-> 0, len |-> 0, out |-> {}]

CanRead(l) == locks[l].writer = {}
CanWrite(l) == locks[l].writer = {} /\ locks[l].readers = {}

Hold(l, w) == [locks EXCEPT ![l].writer = {w}]
ReleaseAll(w) ==
    [l \in LockNames |-> [writer |-> locks[l].writer \ {w}, readers |-> locks[l].readers \ {w}]]

(***************************************************************************)
(* StringInterner::get_or_intern (model.rs:98-128), one action per lock    *)
(* acquisition.  A guard that is taken and dropped inside one statement is *)
(* one step.                                                               *)
(***************************************************************************)
SiInterned(w, i) ==
    /\ result' = [result EXCEPT ![w] = i]
    /\ returned' = returned \cup {<<arg[w], i>>}
    /\ pc' = [pc EXCEPT ![w] = "si_ret"]

\* fast path: `let map = self.map.read(); if let Some(&id) = map.get(s) { return id; }`
SiFast(w) ==
    /\ pc[w] = "si_fast"
    /\ CanRead("map")
    /\ IF arg[w] \in DOMAIN interner.map
       THEN SiInterned(w, interner.map[arg[w]])
       ELSE /\ pc' = [pc EXCEPT ![w] = "si_wmap"]
            /\ UNCHANGED <<result, returned>>
    /\ UNCHANGED <<ci_map, ci_reverse, ci_next_id, arg, id, calls, siVars, rwVars, p3Vars, caVars, p1Vars, p2Vars, hsVars, apVars>>

\* The write lock is taken without the second look at the map.
SiLockMap_NoDoubleCheck(w) ==
    /\ pc[w] = "si_wmap"
    /\ CanWrite("map")
    /\ locks' = Hold("map", w)
    /\ pc' = [pc EXCEPT ![w] = "si_wpool"]
    /\ UNCHANGED <<result, returned>>
    /\ UNCHANGED <<ci_map, ci_reverse, ci_next_id, arg, id, calls, siVars, lk, p3Vars, caVars, p1Vars, p2Vars, hsVars, apVars>>

\* `let mut map = self.map.write();` and the double check
SiLockMap(w) ==
    /\ pc[w] = "si_wmap"
    /\ CanWrite("map")
    /\ IF arg[w] \in DOMAIN interner.map
       THEN /\ SiInterned(w, interner.map[arg[w]])
            /\ UNCHANGED locks
       ELSE /\ locks' = Hold("map", w)
            /\ pc' = [pc EXCEPT ![w] = "si_wpool"]
            /\ UNCHANGED <<result, returned>>
    /\ UNCHANGED <<ci_map, ci_reverse, ci_next_id, arg, id, calls, siVars, lk, p3Vars, caVars, p1Vars, p2Vars, hsVars, apVars>>

\* `let mut pool_guard = self.pool.write();`
SiLockPool(w) ==
    /\ pc[w] = "si_wpool"
    /\ CanWrite("pool")
    /\ locks' = Hold("pool", w)
    /\ pc' = [pc EXCEPT ![w] = "si_woffsets"]
    /\ UNCHANGED <<ci_map, ci_reverse, ci_next_id, arg, id, result, returned, calls, siVars, lk, p3Vars, caVars, p1Vars, p2Vars, hsVars, apVars>>

\* `let mut offsets = self.offsets.write();`
SiLockOffsets(w) ==
    /\ pc[w] = "si_woffsets"
    /\ CanWrite("offsets")
    /\ locks' = Hold("offsets", w)
    /\ pc' = [pc EXCEPT ![w] = "si_wlengths"]
    /\ UNCHANGED <<ci_map, ci_reverse, ci_next_id, arg, id, result, returned, calls, siVars, lk, p3Vars, caVars, p1Vars, p2Vars, hsVars, apVars>>

\* `let mut lengths = self.lengths.write();`, the pushes, the insert, and the
\* release of all four guards at the end of the function
SiPush(w) ==
    /\ pc[w] = "si_wlengths"
    /\ CanWrite("lengths")
    /\ interner' = [map |-> Put(interner.map, arg[w], Len(interner.offsets)),
                    pool |-> interner.pool \o arg[w],
                    offsets |-> Append(interner.offsets, Len(interner.pool)),
                    lengths |-> Append(interner.lengths, Len(arg[w]))]
    /\ id' = [id EXCEPT ![w] = Len(interner.offsets)]
    /\ SiInterned(w, Len(interner.offsets))
    /\ locks' = ReleaseAll(w)
    /\ UNCHANGED <<ci_map, ci_reverse, ci_next_id, arg, calls, converted, lk, p3Vars, caVars, p1Vars, p2Vars, hsVars, apVars>>

(***************************************************************************)
(* StringInterner::lookup (model.rs:131-139).  The offsets guard lives to  *)
(* the end of the function, the lengths guard to the end of its statement, *)
(* the pool guard from line 137 to the end.                                *)
(***************************************************************************)
LkDone(w, out) ==
    /\ lk' = [lk EXCEPT ![w].out = out]
    /\ pc' = [pc EXCEPT ![w] = "lk_ret"]

\* `let offsets = self.offsets.read(); let start = *offsets.get(idx)? as usize;`
LkOffsets(w) ==
    /\ pc[w] = "lk_offsets"
    /\ CanRead("offsets")
    /\ IF lk[w].idx + 1 \in DOMAIN interner.offsets
       THEN /\ locks' = [locks EXCEPT !["offsets"].readers = @ \cup {w}]
            /\ lk' = [lk EXCEPT ![w].start = interner.offsets[lk[w].idx + 1]]
            /\ pc' = [pc EXCEPT ![w] = "lk_lengths"]
       ELSE /\ LkDone(w, {})
            /\ UNCHANGED locks
    /\ UNCHANGED <<ci_map, ci_reverse, ci_next_id, arg, id, result, returned, calls, siVars, p3Vars, caVars, p1Vars, p2Vars, hsVars, apVars>>

\* `let len = *self.lengths.read().get(idx)? as usize;`
LkLengths(w) ==
    /\ pc[w] = "lk_lengths"
    /\ CanRead("lengths")
    /\ IF lk[w].idx + 1 \in DOMAIN interner.lengths
       THEN /\ lk' = [lk EXCEPT ![w].len = interner.lengths[lk[w].idx + 1]]
            /\ pc' = [pc EXCEPT ![w] = "lk_pool"]
            /\ UNCHANGED locks
       ELSE /\ LkDone(w, {})
            /\ locks' = ReleaseAll(w)
    /\ UNCHANGED <<ci_map, ci_reverse, ci_next_id, arg, id, result, returned, calls, siVars, p3Vars, caVars, p1Vars, p2Vars, hsVars, apVars>>

\* `let pool_str = &self.pool.read().0; Some(pool_str[start..start + len].to_string())`
LkPool(w) ==
    /\ pc[w] = "lk_pool"
    /\ CanRead("pool")
    /\ LkDone(w, {SubSeq(interner.pool, lk[w].start + 1, lk[w].start + lk[w].len)})
    /\ locks' = ReleaseAll(w)
    /\ UNCHANGED <<ci_map, ci_reverse, ci_next_id, arg, id, result, returned, calls, siVars, p3Vars, caVars, p1Vars, p2Vars, hsVars, apVars>>

\* Callers of the read form while it is shared between threads.
RwInternCall(w) ==
    /\ pc[w] = "idle"
    /\ calls < MaxCalls
    /\ \E s \in InternStrings : arg' = [arg EXCEPT ![w] = s]
    /\ calls' = calls + 1
    /\ pc' = [pc EXCEPT ![w] = "si_fast"]
    /\ UNCHANGED <<ci_map, ci_reverse, ci_next_id, id, result, returned, siVars, rwVars, p3Vars, caVars, p1Vars, p2Vars, hsVars, apVars>>

RwLookupCall(w) ==
    /\ pc[w] = "idle"
    /\ calls < MaxCalls
    /\ \E i \in 0..Cardinality(InternStrings) :
          lk' = [lk EXCEPT ![w] = [idx |-> i, start |-> 0, len |-> 0, out |-> {}]]
    /\ calls' = calls + 1
    /\ pc' = [pc EXCEPT ![w] = "lk_offsets"]
    /\ UNCHANGED <<ci_map, ci_reverse, ci_next_id, arg, id, result, returned, siVars, locks, p3Vars, caVars, p1Vars, p2Vars, hsVars, apVars>>

RwReturn(w) ==
    /\ pc[w] \in {"si_ret", "lk_ret"}
    /\ pc' = [pc EXCEPT ![w] = "idle"]
    /\ arg' = [arg EXCEPT ![w] = EmptyString]
    /\ id' = [id EXCEPT ![w] = 0]
    /\ result' = [result EXCEPT ![w] = 0]
    /\ lk' = [lk EXCEPT ![w] = NoLookup]
    /\ UNCHANGED <<ci_map, ci_reverse, ci_next_id, returned, calls, siVars, locks, p3Vars, caVars, p1Vars, p2Vars, hsVars, apVars>>

(***************************************************************************)
(* The cache file: the fingerprint, the envelope and its serialization     *)
(* (bincode: little-endian, u64 length prefixes) through the zstd stream.  *)
(***************************************************************************)
\* A second configuration: `primary_keys` changed, the rest alike.
AltFilters == [primary_keys |-> <<S_highway, S_name>>, attribute_keys |-> <<S_name>>]
FilterConfigs == {DefaultFilters, AltFilters}

\* UTF-8 bytes of the characters in use
Byte(c) ==
    CASE c = "h" -> 104 [] c = "w" -> 119 [] c = "n" -> 110 [] c = "r" -> 114
      [] c = "M" -> 77 [] c = "s" -> 115 [] c = "p" -> 112 [] c = "q" -> 113
      [] OTHER -> 63
Char(b) ==
    CASE b = 104 -> "h" [] b = 119 -> "w" [] b = 110 -> "n" [] b = 114 -> "r"
      [] b = 77 -> "M" [] b = 115 -> "s" [] b = 112 -> "p" [] b = 113 -> "q"
      [] OTHER -> "?"
Bytes(s) == [i \in DOMAIN s |-> Byte(s[i])]
Chars(bs) == [i \in DOMAIN bs |-> Char(bs[i])]

\* std::fs::metadata(pbf_path) and the canonical path
PbfMeta == [path |-> <<"p">>, len |-> 3, modified |-> 1]

\* calculate_source_hash: the hasher is fed the two key lists (each with its
\* length and every string delimited), the path, the size and the mtime, in
\* this order; the 64-bit result is modelled by what was fed to the hasher.
\* `impl Hash for str`: the bytes, then 0xff
FeedStr(s) == Bytes(s) \o <<255>>
\* `impl Hash for Vec<String>`: the length, then every string
FeedVec(v) == <<Len(v)>> \o Concat([i \in DOMAIN v |-> FeedStr(v[i])])

\* The key lists written to the hasher as bare bytes.
HashFeed_Undelimited(filters, meta) ==
    Concat([i \in DOMAIN filters.primary_keys |-> Bytes(filters.primary_keys[i])])
    \o Concat([i \in DOMAIN filters.attribute_keys |-> Bytes(filters.attribute_keys[i])])
    \o FeedStr(meta.path) \o <<meta.len, meta.modified>>

\* what calculate_source_hash writes to the DefaultHasher
HashFeed(filters, meta) ==
    FeedVec(filters.primary_keys) \o FeedVec(filters.attribute_keys)
    \o FeedStr(meta.path) \o <<meta.len, meta.modified>>

calculate_source_hash(filters, meta) == [fed |-> HashFeed(filters, meta)]

NoHash == calculate_source_hash([primary_keys |-> << >>, attribute_keys |-> << >>],
                                [path |-> << >>, len |-> 0, modified |-> 0])

\* CacheData (model.rs:262-269)
CacheData(els, ts, si, h) ==
    [elements |-> els, tag_sets |-> ts, interner |-> si, source_hash |-> h]
NoData == CacheData(<< >>, EmptyTagSets, EmptyInterner, NoHash)

\* Results of the three passes on two inputs: one node, and two nodes, with
\* the tag highway=r.
SampleInterner ==
    IntoStringInternerOf(Put(Put(EmptyMap, S_highway, 0), S_residential, 1),
                         Put(Put(EmptyMap, 0, S_highway), 1, S_residential), 2)
SampleTagSets == Flatten(Put(EmptyMap, 0, <<<<0, 1>>>>), 0, 1, EmptyTagSets)
D_one == CacheData(<<Element(1, <<0, 0>>, <<0, 0>>, 0)>>, SampleTagSets, SampleInterner, NoHash)
D_two ==
    CacheData(<<Element(1, <<0, 0>>, <<0, 0>>, 0), Element(2, <<0, 10000>>, <<0, 10000>>, 0)>>,
              SampleTagSets, SampleInterner, NoHash)
Datasets == {D_one, D_two}

\* The tokens of the stream are the fixed-width fields; a u64 tag pair is its
\* low and high halves.
SerElement(e) ==
    <<e.id, e.coordinates[1][1], e.coordinates[1][2], e.coordinates[2][1],
      e.coordinates[2][2], e.tag_set_id>>
\* The two halves of the u64 in the other order.
SerPacked_HighFirst(p) == <<p.hi, p.lo>>
SerPacked(p) == <<p.lo, p.hi>>
SerString(s) == <<Len(s)>> \o Bytes(s)
SerU32s(v) == <<Len(v)>> \o v

\* HashMap<String, u32>: the number of entries, then each key and value
RECURSIVE SerEntries(_, _)
SerEntries(m, keys) ==
    IF keys = {} THEN << >>
    ELSE LET k == CHOOSE x \in keys : TRUE
         IN  SerString(k) \o <<m[k]>> \o SerEntries(m, keys \ {k})
SerMap(m) == <<Cardinality(DOMAIN m)>> \o SerEntries(m, DOMAIN m)

\* bincode::serialize_into(&mut encoder, &cache_data): the fields in
\* declaration order, source_hash last
Serialize(cd) ==
    <<Len(cd.elements)>> \o Concat([i \in DOMAIN cd.elements |-> SerElement(cd.elements[i])])
    \o <<Len(cd.tag_sets.data)>>
    \o Concat([i \in DOMAIN cd.tag_sets.data |-> SerPacked(cd.tag_sets.data[i])])
    \o SerU32s(cd.tag_sets.offsets) \o SerU32s(cd.tag_sets.lengths)
    \o SerMap(cd.interner.map) \o SerString(cd.interner.pool)
    \o SerU32s(cd.interner.offsets) \o SerU32s(cd.interner.lengths)
    \o <<cd.source_hash>>

\* Readers over the decoded stream s: each continues from the reader r before
\* it and fails when the stream ends early.
ReadFail == [ok |-> FALSE, v |-> << >>, pos |-> 0]
ReadStart == [ok |-> TRUE, v |-> << >>, pos |-> 1]
ReadOne(s, r) ==
    IF r.ok /\ r.pos <= Len(s) THEN [ok |-> TRUE, v |-> s[r.pos], pos |-> r.pos + 1]
    ELSE ReadFail
\* a length, then that many items of `width` tokens
ReadVec(s, r, width) ==
    LET n == ReadOne(s, r)
    IN  IF n.ok /\ n.pos + n.v * width - 1 <= Len(s)
        THEN [ok |-> TRUE,
              v |-> [i \in 1..n.v |-> SubSeq(s, n.pos + (i - 1) * width, n.pos + i * width - 1)],
              pos |-> n.pos + n.v * width]
        ELSE ReadFail
Flat(items) == [i \in DOMAIN items |-> items[i][1]]
RECURSIVE ReadEntries(_, _, _, _)
ReadEntries(s, r, n, acc) ==
    IF ~r.ok THEN ReadFail
    ELSE IF n = 0 THEN [ok |-> TRUE, v |-> acc, pos |-> r.pos]
    ELSE LET k == ReadVec(s, r, 1)
             val == ReadOne(s, k)
         IN  IF val.ok THEN ReadEntries(s, val, n - 1, Put(acc, Chars(Flat(k.v)), val.v))
             ELSE ReadFail
ReadMap(s, r) ==
    LET n == ReadOne(s, r)
    IN  IF n.ok THEN ReadEntries(s, n, n.v, EmptyMap) ELSE ReadFail

DeElement(t) == Element(t[1], <<t[2], t[3]>>, <<t[4], t[5]>>, t[6])
DePacked(t) == [hi |-> t[2], lo |-> t[1]]

\* bincode::deserialize_from(&mut decoder): the CacheData read from the
\* stream, or nothing when a read fails.
Deserialize(s) ==
    LET els == ReadVec(s, ReadStart, 6)
        data == ReadVec(s, els, 2)
        offs == ReadVec(s, data, 1)
        lens == ReadVec(s, offs, 1)
        map == ReadMap(s, lens)
        pool == ReadVec(s, map, 1)
        ioffs == ReadVec(s, pool, 1)
        ilens == ReadVec(s, ioffs, 1)
        hash == ReadOne(s, ilens)
    IN  IF hash.ok
        THEN {CacheData([i \in DOMAIN els.v |-> DeElement(els.v[i])],
                        [data |-> [i \in DOMAIN data.v |-> DePacked(data.v[i])],
                         offsets |-> Flat(offs.v), lengths |-> Flat(lens.v)],
                        [map |-> map.v, pool |-> Chars(Flat(pool.v)),
                         offsets |-> Flat(ioffs.v), lengths |-> Flat(ilens.v)],
                        hash.v)}
        ELSE {}

\* The file at cache_dir/data.bin.zst: `zstd` says that it is a zstd stream,
\* `data` is what its complete blocks decode to, `ended` that the frame was
\* finished.
NoFile == [exists |-> FALSE, zstd |-> FALSE, data |-> << >>, ended |-> FALSE]
NotZstd == [exists |-> TRUE, zstd |-> FALSE, data |-> << >>, ended |-> FALSE]
Created == [exists |-> TRUE, zstd |-> TRUE, data |-> << >>, ended |-> FALSE]

\* zstd::stream::read::Decoder: the bytes it yields before the end of the
\* input or an error
Decode(f) == IF f.zstd THEN f.data ELSE << >>

\* The encoder emits a block when this many tokens have been written to it;
\* finish() emits the rest and ends the frame.
BlockSize == 11

(***************************************************************************)
(* load_or_preprocess (preprocessor.rs:25-65), run after run on one cache  *)
(* directory. The three passes are the subject of SpecPass3; here they are *)
(* one step that yields one of Datasets.                                   *)
(***************************************************************************)
MaxRuns == 2

NoOutcome == [kind |-> "none", err |-> "", data |-> NoData]
Err(e) == [kind |-> "error", err |-> e, data |-> NoData]
\* The clear empties the whole interner, not its map only.
Owned_ClearAll(kind, cd) ==
    [kind |-> kind, err |-> "",
     data |-> [cd EXCEPT !.interner = IF runtime.drop_interner_map THEN EmptyInterner ELSE @,
                         !.source_hash = NoHash]]
\* `if config.runtime.drop_interner_map { interner.map.write().clear(); }`,
\* then LoadedCache::Owned { elements, tag_sets, interner }
Owned(kind, cd) ==
    [kind |-> kind, err |-> "",
     data |-> [cd EXCEPT !.interner.map = IF runtime.drop_interner_map THEN EmptyMap ELSE @,
                         !.source_hash = NoHash]]

caRest == <<ciVars, siVars, rwVars, pbf, p3Rest, runtime, p1Vars, p2Vars, hsVars, apVars>>

\* The run ends with `e`: the locals are dropped, the file stays as it is.
Fails(e) ==
    /\ outcome' = Err(e)
    /\ lpc' = "done"
    /\ cache_data' = NoData
    /\ UNCHANGED <<cache_file, config, caRest>>

\* `let source_hash = calculate_source_hash(config, pbf_path)?;`
CalcHash ==
    /\ lpc \in {"idle", "done"}
    /\ runs < MaxRuns
    /\ runs' = runs + 1
    /\ source_hash' = calculate_source_hash(config, PbfMeta)
    /\ found' = "none"
    /\ outcome' = NoOutcome
    /\ cache_data' = NoData
    /\ lpc' = "hashed"
    /\ UNCHANGED <<cache_file, config, caRest>>

\* std::fs::metadata(pbf_path) fails
HashFail ==
    /\ lpc \in {"idle", "done"}
    /\ runs < MaxRuns
    /\ runs' = runs + 1
    /\ source_hash' = NoHash
    /\ found' = "none"
    /\ Fails("metadata")

\* `if cache_file_zst.exists()` is false
CacheAbsent ==
    /\ lpc = "hashed"
    /\ ~cache_file.exists
    /\ found' = "absent"
    /\ lpc' = "passes"
    /\ UNCHANGED <<cache_file, runs, source_hash, cache_data, outcome, config, caRest>>

\* `File::open(&cache_file_zst)?` or `Decoder::new(reader)?` fails
OpenFail ==
    /\ lpc = "hashed"
    /\ cache_file.exists
    /\ found' = "unreadable"
    /\ Fails("open")
    /\ UNCHANGED <<runs, source_hash>>

\* A hit that is taken for a miss: the passes run again.
LoadHit_Reprocess ==
    /\ lpc = "hashed"
    /\ cache_file.exists
    /\ \E cd \in Deserialize(Decode(cache_file)) : cd.source_hash = source_hash
    /\ found' = "bad"
    /\ lpc' = "passes"
    /\ UNCHANGED <<cache_file, runs, source_hash, cache_data, outcome, config, caRest>>

\* deserialize_from is Ok and the stored hash is the computed one
LoadHit ==
    /\ lpc = "hashed"
    /\ cache_file.exists
    /\ \E cd \in Deserialize(Decode(cache_file)) :
          /\ cd.source_hash = source_hash
          /\ outcome' = Owned("loaded", cd)
    /\ found' = "valid"
    /\ lpc' = "done"
    /\ UNCHANGED <<cache_file, runs, source_hash, cache_data, config, caRest>>

\* deserialize_from is Err, or the stored hash differs: "re-preprocessing"
LoadMiss ==
    /\ lpc = "hashed"
    /\ cache_file.exists
    /\ \A cd \in Deserialize(Decode(cache_file)) : cd.source_hash # source_hash
    /\ found' = "bad"
    /\ lpc' = "passes"
    /\ UNCHANGED <<cache_file, runs, source_hash, cache_data, outcome, config, caRest>>

\* preprocess: the three passes, the flat store and the read form
Passes ==
    /\ lpc = "passes"
    /\ \E d \in Datasets : cache_data' = [d EXCEPT !.source_hash = source_hash]
    /\ lpc' = "create"
    /\ UNCHANGED <<cache_file, runs, source_hash, found, outcome, config, caRest>>

\* The cache file is created before the passes have read the PBF.
PassesFail_Truncating ==
    /\ lpc = "passes"
    /\ cache_file' = Created
    /\ outcome' = Err("pbf")
    /\ lpc' = "done"
    /\ cache_data' = NoData
    /\ UNCHANGED <<runs, source_hash, found, config, caRest>>

\* `ElementReader::from_path(pbf_path)?` or a pass ends with "PBF Error"
PassesFail ==
    /\ lpc = "passes"
    /\ Fails("pbf")
    /\ UNCHANGED <<runs, source_hash, found>>

\* `File::create(cache_file)?` truncates the file at the final path
Create ==
    /\ lpc = "create"
    /\ cache_file' = Created
    /\ lpc' = "write"
    /\ UNCHANGED <<runs, source_hash, cache_data, found, outcome, config, caRest>>

CreateFail ==
    /\ lpc = "create"
    /\ Fails("create")
    /\ UNCHANGED <<runs, source_hash, found>>

\* what of the envelope has not reached the file
Remaining == Len(Serialize(cache_data)) - Len(cache_file.data)

\* serialize_into fills a block of the encoder, which goes to the file
WriteBlock ==
    /\ lpc = "write"
    /\ Remaining >= BlockSize
    /\ cache_file' = [cache_file EXCEPT
           !.data = SubSeq(Serialize(cache_data), 1, Len(cache_file.data) + BlockSize)]
    /\ UNCHANGED <<lpc, runs, source_hash, cache_data, found, outcome, config, caRest>>

\* `Encoder::new(..)?`, `serialize_into(..)?` or `encoder.finish()?` fails:
\* a write of a block fails (once every block is in the file, what is left to
\* write is the end of the frame, in the BufWriter)
WriteFail ==
    /\ lpc = "write"
    /\ Remaining > 0
    /\ Fails("write")
    /\ UNCHANGED <<runs, source_hash, found>>

\* `encoder.finish()?` writes the last block and the end of the frame
Finish ==
    /\ lpc = "write"
    /\ Remaining < BlockSize
    /\ cache_file' = [cache_file EXCEPT !.data = Serialize(cache_data), !.ended = TRUE]
    /\ lpc' = "saved"
    /\ UNCHANGED <<runs, source_hash, cache_data, found, outcome, config, caRest>>

\* finish() is Ok with the end of the stream still in the BufWriter, whose
\* drop ignores the error of its flush
FinishLost ==
    /\ lpc = "write"
    /\ Remaining < BlockSize
    /\ lpc' = "saved"
    /\ UNCHANGED <<cache_file, runs, source_hash, cache_data, found, outcome, config, caRest>>

\* `Ok((elements, tag_sets, interner))` and LoadedCache::Owned
Return ==
    /\ lpc = "saved"
    /\ outcome' = Owned("preprocessed", cache_data)
    /\ cache_data' = NoData
    /\ lpc' = "done"
    /\ UNCHANGED <<cache_file, runs, source_hash, found, config, caRest>>

\* The process is killed during a run.
Crash ==
    /\ lpc \notin {"idle", "done"}
    /\ lpc' = "idle"
    /\ outcome' = [kind |-> "killed", err |-> "", data |-> NoData]
    /\ cache_data' = NoData
    /\ UNCHANGED <<cache_file, runs, source_hash, found, config, caRest>>

\* The filter configuration is edited between two runs.
Reconfigure ==
    /\ lpc \in {"idle", "done"}
    /\ runs < MaxRuns
    /\ \E f \in FilterConfigs \ {config} : config' = f
    /\ UNCHANGED <<cache_file, lpc, runs, source_hash, cache_data, found, outcome, caRest>>

(***************************************************************************)
(* The query server (api.rs).  Positions are f32 values in units of 1e-7   *)
(* degree, the radius of a query is in units of 1e-7 metre; squared        *)
(* distances are fractions [n, d] with d > 0.                              *)
(***************************************************************************)
NoApp == [elements |-> << >>, tag_sets |-> EmptyTagSets, interner |-> EmptyInterner]

\* SpatialElement (api.rs:32-36), its Line as the two endpoints
SpatialElement(e) ==
    [id |-> e.id, tag_set_id |-> e.tag_set_id, from |-> e.coordinates[1], to |-> e.coordinates[2]]

\* Positions around 2^24, where the f32 values are the even integers above
\* and all integers below.
B24 == Pow2(MantissaBits)
Store_nodes ==
    <<Element(1, <<B24 - 2, 0>>, <<B24 - 2, 0>>, 0), Element(2, <<B24 + 2, 0>>, <<B24 + 2, 0>>, 0),
      Element(3, <<B24 + 4, 1>>, <<B24 + 4, 1>>, 0)>>
Store_mixed ==
    <<Element(1, <<B24 + 2, 0>>, <<B24 + 2, 0>>, 0), Element(7, <<B24, 2>>, <<B24 + 4, 2>>, 0),
      Element(8, <<B24, 0>>, <<B24, 2>>, 0), Element(9, <<B24 - 2, 0>>, <<B24 - 2, 0>>, 0)>>
Stores == {Store_nodes, Store_mixed}

\* start_server: the SpatialElements of the loaded elements go to the RTree
StartServer ==
    /\ app = NoApp
    /\ \E els \in Stores :
          app' = [elements |-> [i \in DOMAIN els |-> SpatialElement(els[i])],
                  tag_sets |-> SampleTagSets, interner |-> SampleInterner]
    /\ UNCHANGED <<request, response, ciVars, siVars, rwVars, p3Vars, caVars, p1Vars, p2Vars, hsVars>>

Rat(n, d) == [n |-> n, d |-> d]
LeqRat(a, b) == a.n * b.d <= b.n * a.d
LtRat(a, b) == a.n * b.d < b.n * a.d
Sub(a, b) == <<a[1] - b[1], a[2] - b[2]>>
Dot(a, b) == a[1] * b[1] + a[2] * b[2]

\* `Line::new(p1, p2).distance_2(point)`: the distance to the nearest point
\* of the line, which is p1 + s * dir for 0 < s < 1, p1 for s <= 0 and p2
\* otherwise (also for the NaN of a line without length)
LineDistance2(p, a, b) ==
    LET v == Sub(b, a)
        w == Sub(p, a)
        c1 == Dot(w, v)
        c2 == Dot(v, v)
    IN  IF c2 # 0 /\ 0 < c1 /\ c1 < c2 THEN Rat(Dot(w, w) * c2 - c1 * c1, c2)
        ELSE IF c2 # 0 /\ c1 <= 0 THEN Rat(Dot(w, w), 1)
        ELSE Rat(Dot(Sub(p, b), Sub(p, b)), 1)

\* `impl PointDistance for SpatialElement`
distance_2(se, point) == LineDistance2(point, se.from, se.to)

MetresPerDegree == 111320
\* `params.radius / 111320.0`
RadiusDeg(radius) == radius \div MetresPerDegree

\* QueryParams (api.rs:66-71) of the queries
QueryParams ==
    [lat : {B24, B24 + 1, B24 + 3}, lon : {0, 1, 2},
     radius : {0, MetresPerDegree, 2 * MetresPerDegree, 3 * MetresPerDegree}]

\* Elements at the distance max itself are left out.
LocateWithinDistance_Strict(els, point, max) ==
    {i \in DOMAIN els : LtRat(distance_2(els[i], point), Rat(max, 1))}

\* `rtree.locate_within_distance(query_point, max)`: the indexes of the
\* elements at a squared distance of at most max
LocateWithinDistance(els, point, max) ==
    {i \in DOMAIN els : LeqRat(distance_2(els[i], point), Rat(max, 1))}

\* `tags`: the HashMap built by inserting the looked-up pairs of the slice
RECURSIVE InsertTags(_, _, _)
InsertTags(si, pairs, acc) ==
    IF pairs = << >> THEN acc
    ELSE LET k == Lookup(si, Head(pairs)[1])
             v == Lookup(si, Head(pairs)[2])
         IN  InsertTags(si, Tail(pairs),
                        IF k # {} /\ v # {}
                        THEN Put(acc, CHOOSE x \in k : TRUE, CHOOSE x \in v : TRUE)
                        ELSE acc)
ResultTags(ts, si, tag_set_id) ==
    IF TagSetsGet(ts, tag_set_id) = {} THEN EmptyMap
    ELSE InsertTags(si, UnpackAll(CHOOSE s \in TagSetsGet(ts, tag_set_id) : TRUE), EmptyMap)

\* The type is decided by the latitudes alone.
ElementType_LatOnly(p1, p2) == IF p1[1] = p2[1] THEN "node" ELSE "way"

\* `if p1 == p2 { "node" } else { "way" }`
ElementType(p1, p2) == IF p1 = p2 THEN "node" ELSE "way"

\* ResultElement (api.rs:207-215); `as f64` of an f32 is exact
ResultElement(se, tags) ==
    [id |-> se.id, lat1 |-> se.from[1], lon1 |-> se.from[2], lat2 |-> se.to[1], lon2 |-> se.to[2],
     type |-> ElementType(se.from, se.to), tags |-> tags]

\* The orders of the indexes in `hits`.
Orders(hits) ==
    {o \in [1..Cardinality(hits) -> hits] : \A i, j \in DOMAIN o : i # j => o[i] # o[j]}

\* The results are left in the order the RTree yields them.
SortByDistance_Unsorted(els, hits, point) == Orders(hits)

\* `sort_by(|a, b| a.0.partial_cmp(&b.0)...)` on the results in the order
\* the RTree yields them, which is any: the sort is stable, so the outcome
\* is any order that ascends in the distance
SortByDistance(els, hits, point) ==
    {o \in Orders(hits) :
        \A i, j \in DOMAIN o :
            i < j => LeqRat(distance_2(els[o[i]], point), distance_2(els[o[j]], point))}

\* handle_query (api.rs:162-245)
HandleQuery ==
    /\ app # NoApp
    /\ \E params \in QueryParams :
          LET radius_deg_f32 == AsF32(RadiusDeg(params.radius))
              query_point == <<AsF32(params.lat), AsF32(params.lon)>>
              results == LocateWithinDistance(app.elements, query_point,
                                              radius_deg_f32 * radius_deg_f32)
          IN  /\ request' = {params}
              /\ \E o \in SortByDistance(app.elements, results, query_point) :
                    response' = {[i \in DOMAIN o |->
                                    ResultElement(app.elements[o[i]],
                                                  ResultTags(app.tag_sets, app.interner,
                                                             app.elements[o[i]].tag_set_id))]}
    /\ UNCHANGED <<app, ciVars, siVars, rwVars, p3Vars, caVars, p1Vars, p2Vars, hsVars>>

(***************************************************************************)
(* calculate_source_hash on two configurations, each with the metadata of  *)
(* the PBF it names.                                                       *)
(***************************************************************************)
S_hn == <<"h", "n">>
FilterChoices ==
    {DefaultFilters,
     [primary_keys |-> <<S_highway, S_name>>, attribute_keys |-> << >>],
     [primary_keys |-> <<S_name, S_highway>>, attribute_keys |-> << >>],
     [primary_keys |-> << >>, attribute_keys |-> <<S_highway, S_name>>],
     [primary_keys |-> <<S_hn>>, attribute_keys |-> << >>]}
MetaChoices == [path : {<<"p">>, <<"q">>}, len : {3, 4}, modified : {1, 2}]
\* storage.zstd_level, storage.cache_dir, server.port, runtime, profiling.enabled
OtherChoices ==
    {[zstd_level |-> 3, cache_dir |-> <<"w">>, port |-> 80, drop_interner_map |-> TRUE,
      profiling |-> FALSE],
     [zstd_level |-> 19, cache_dir |-> <<"r">>, port |-> 81, drop_interner_map |-> FALSE,
      profiling |-> TRUE]}
HashInputs == [filters : FilterChoices, meta : MetaChoices, other : OtherChoices]

\* `calculate_source_hash(config, pbf_path)` for both inputs
HsCalc ==
    /\ hs_in # << >>
    /\ hs_out = << >>
    /\ hs_out' = [i \in DOMAIN hs_in |-> calculate_source_hash(hs_in[i].filters, hs_in[i].meta)]
    /\ UNCHANGED <<hs_in, ciVars, siVars, rwVars, p3Vars, caVars, p1Vars, p2Vars, apVars>>

\* The configuration file or the PBF of the second input is replaced.
HsEdit ==
    /\ hs_out # << >>
    /\ \E x \in HashInputs : x # hs_in[2] /\ hs_in' = <<hs_in[1], x>>
    /\ hs_out' = << >>
    /\ UNCHANGED <<ciVars, siVars, rwVars, p3Vars, caVars, p1Vars, p2Vars, apVars>>

\* The pass-1 variables while pass 1 is not modelled.
P1Idle ==
    /\ p1_todo = {}
    /\ p1_frame = [w \in Workers |-> NoFold]
    /\ p1_partials = {}
    /\ node_count = 0
    /\ required_nodes = {}

\* The pass-2 variables while pass 2 is not modelled.
P2Idle ==
    /\ p2_todo = {}
    /\ p2_frame = [w \in Workers |-> NoScan]
    /\ coords = EmptyMap
    /\ coords_stored = 0
    /\ node_count_pass2 = 0
    /\ shortfall = << >>

\* The fingerprint variables while no fingerprint is compared.
HsIdle ==
    /\ hs_in = << >>
    /\ hs_out = << >>

\* The server's variables while no server runs.
ApIdle ==
    /\ app = NoApp
    /\ request = {}
    /\ response = {}

\* What every specification but the one about them starts with.
RestIdle == P2Idle /\ HsIdle /\ ApIdle

\* The cache variables while no run is modelled.
CaIdle ==
    /\ cache_file = NoFile
    /\ lpc = "idle"
    /\ runs = 0
    /\ source_hash = NoHash
    /\ cache_data = NoData
    /\ found = "none"
    /\ outcome = NoOutcome
    /\ runtime = [drop_interner_map |-> TRUE]

\* The pipeline's variables while no pipeline runs.
P3Idle ==
    /\ pbf = << >>
    /\ config = DefaultFilters
    /\ node_coords = EmptyMap
    /\ todo = {}
    /\ frame = [w \in Workers |-> NoFrame]
    /\ tag_set_map = EmptyMap
    /\ tag_set_reverse = EmptyMap
    /\ tag_set_counter = 0
    /\ ts_returned = {}
    /\ elements = {}
    /\ segments_skipped = 0
    /\ tag_sets = EmptyTagSets
    /\ materialized = FALSE

(***************************************************************************)
(* Specification of the interner on its own: workers call get_or_intern    *)
(* with arbitrary strings, then the interner is converted to the read form.*)
(***************************************************************************)
CiInit ==
    /\ ci_map = EmptyMap
    /\ ci_reverse = EmptyMap
    /\ ci_next_id = 0
    /\ pc = [w \in Workers |-> "idle"]
    /\ arg = [w \in Workers |-> EmptyString]
    /\ id = [w \in Workers |-> 0]
    /\ result = [w \in Workers |-> 0]
    /\ returned = {}
    /\ calls = 0

RwInit ==
    /\ locks = [l \in LockNames |-> FreeLock]
    /\ lk = [w \in Workers |-> NoLookup]

InitInterner ==
    /\ CiInit
    /\ RestIdle
    /\ ppc = "none"
    /\ P1Idle
    /\ RwInit
    /\ P3Idle
    /\ CaIdle
    /\ interner = EmptyInterner
    /\ converted = FALSE

NextInterner ==
    \/ \E w \in Workers : InternCall(w)
    \/ \E w \in Workers : CiGet(w)
    \/ \E w \in Workers : CiFetchAdd(w)
    \/ \E w \in Workers : CiInsert(w)
    \/ \E w \in Workers : CiReverseInsert(w)
    \/ \E w \in Workers : InternReturn(w)
    \/ IntoStringInterner

SpecInterner == InitInterner /\ [][NextInterner]_vars

(***************************************************************************)
(* Specification of the read form shared between threads: get_or_intern    *)
(* and lookup calls run concurrently on one StringInterner.                *)
(***************************************************************************)
InitReadForm == InitInterner

NextReadForm ==
    \/ \E w \in Workers : RwInternCall(w)
    \/ \E w \in Workers : RwLookupCall(w)
    \/ \E w \in Workers : SiFast(w)
    \/ \E w \in Workers : SiLockMap(w)
    \/ \E w \in Workers : SiLockPool(w)
    \/ \E w \in Workers : SiLockOffsets(w)
    \/ \E w \in Workers : SiPush(w)
    \/ \E w \in Workers : LkOffsets(w)
    \/ \E w \in Workers : LkLengths(w)
    \/ \E w \in Workers : LkPool(w)
    \/ \E w \in Workers : RwReturn(w)

SpecReadForm == InitReadForm /\ [][NextReadForm]_vars

(***************************************************************************)
(* Specification of pass 3 and what follows it: the workers share the      *)
(* records of the PBF, then the flat store and the read form are built.    *)
(***************************************************************************)
InitPass3 ==
    /\ CiInit
    /\ RestIdle
    /\ ppc = "pass3"
    /\ P1Idle
    /\ RwInit
    /\ CaIdle
    /\ interner = EmptyInterner
    /\ converted = FALSE
    /\ pbf \in PbfFiles
    /\ config = DefaultFilters
    /\ node_coords = CompactCoords
    /\ todo = Blobs
    /\ frame = [w \in Workers |-> NoFrame]
    /\ tag_set_map = EmptyMap
    /\ tag_set_reverse = EmptyMap
    /\ tag_set_counter = 0
    /\ ts_returned = {}
    /\ elements = {}
    /\ segments_skipped = 0
    /\ tag_sets = EmptyTagSets
    /\ materialized = FALSE

NextPass3 ==
    \/ \E w \in Workers : P3Take(w)
    \/ \E w \in Workers : CiGet(w)
    \/ \E w \in Workers : CiFetchAdd(w)
    \/ \E w \in Workers : CiInsert(w)
    \/ \E w \in Workers : CiReverseInsert(w)
    \/ \E w \in Workers : TsGet(w)
    \/ \E w \in Workers : TsFetchAdd(w)
    \/ \E w \in Workers : TsInsert(w)
    \/ \E w \in Workers : TsReverseInsert(w)
    \/ Materialize
    \/ FinalInterner

SpecPass3 == InitPass3 /\ [][NextPass3]_vars

(***************************************************************************)
(* Specification of pass 1: the workers fold the blobs of the PBF and the  *)
(* folds are reduced to the required-node set.                             *)
(***************************************************************************)
InitPass1 ==
    /\ CiInit
    /\ RestIdle
    /\ ppc = "pass1"
    /\ RwInit
    /\ CaIdle
    /\ interner = EmptyInterner
    /\ converted = FALSE
    /\ pbf \in PbfFiles
    /\ config \in FilterConfigs
    /\ node_coords = EmptyMap
    /\ todo = {}
    /\ frame = [w \in Workers |-> NoFrame]
    /\ tag_set_map = EmptyMap
    /\ tag_set_reverse = EmptyMap
    /\ tag_set_counter = 0
    /\ ts_returned = {}
    /\ elements = {}
    /\ segments_skipped = 0
    /\ tag_sets = EmptyTagSets
    /\ materialized = FALSE
    /\ p1_todo = Blobs
    /\ p1_frame = [w \in Workers |-> NoFold]
    /\ p1_partials = {}
    /\ node_count = 0
    /\ required_nodes = {}

NextPass1 ==
    \/ \E w \in Workers : P1Take(w)
    \/ \E w \in Workers : P1Map(w)
    \/ \E w \in Workers : P1Fold(w)
    \/ P1Reduce
    \/ P1Return

SpecPass1 == InitPass1 /\ [][NextPass1]_vars

(***************************************************************************)
(* Specification of the fingerprint: calculate_source_hash applied to two  *)
(* inputs.                                                                 *)
(***************************************************************************)
InitHash ==
    /\ CiInit
    /\ ppc = "none"
    /\ RwInit
    /\ P3Idle
    /\ CaIdle
    /\ P1Idle
    /\ P2Idle
    /\ ApIdle
    /\ interner = EmptyInterner
    /\ converted = FALSE
    /\ hs_in \in HashInputs \X HashInputs
    /\ hs_out = << >>

NextHash ==
    \/ HsCalc
    \/ HsEdit

SpecHash == InitHash /\ [][NextHash]_vars

(***************************************************************************)
(* Specification of the query server: it starts on a loaded store and      *)
(* answers queries.                                                        *)
(***************************************************************************)
InitQuery ==
    /\ CiInit
    /\ ppc = "none"
    /\ RwInit
    /\ P3Idle
    /\ CaIdle
    /\ P1Idle
    /\ P2Idle
    /\ HsIdle
    /\ ApIdle
    /\ interner = EmptyInterner
    /\ converted = FALSE

NextQuery ==
    \/ StartServer
    \/ HandleQuery

SpecQuery == InitQuery /\ [][NextQuery]_vars

(***************************************************************************)
(* Specification of preprocess: pass 1, pass 2, the compaction, pass 3,    *)
(* the materialization and the creation of the cache file, by one thread   *)
(* and the workers of its three par_map_reduce calls.                      *)
(***************************************************************************)
PreprocessFiles == {F_way, F_geometry, F_dup, F_loop}

InitPreprocess ==
    /\ CiInit
    /\ RwInit
    /\ P2Idle
    /\ HsIdle
    /\ ApIdle
    /\ ppc = "pass1"
    /\ interner = EmptyInterner
    /\ converted = FALSE
    /\ pbf \in PreprocessFiles
    /\ config = DefaultFilters
    /\ node_coords = EmptyMap
    /\ todo = {}
    /\ frame = [w \in Workers |-> NoFrame]
    /\ tag_set_map = EmptyMap
    /\ tag_set_reverse = EmptyMap
    /\ tag_set_counter = 0
    /\ ts_returned = {}
    /\ elements = {}
    /\ segments_skipped = 0
    /\ tag_sets = EmptyTagSets
    /\ materialized = FALSE
    /\ p1_todo = Blobs
    /\ p1_frame = [w \in Workers |-> NoFold]
    /\ p1_partials = {}
    /\ node_count = 0
    /\ required_nodes = {}
    /\ cache_file \in {NoFile, NotZstd}
    /\ lpc = "passes"
    /\ runs = 1
    /\ source_hash = calculate_source_hash(DefaultFilters, PbfMeta)
    /\ cache_data = NoData
    /\ found = "none"
    /\ outcome = NoOutcome
    /\ runtime = [drop_interner_map |-> TRUE]

NextPreprocess ==
    \/ \E w \in Workers : P1Take(w)
    \/ \E w \in Workers : P1Map(w)
    \/ \E w \in Workers : P1Fold(w)
    \/ P1Reduce
    \/ P1Return
    \/ P2Start
    \/ \E w \in Workers : P2Take(w)
    \/ \E w \in Workers : P2Map(w)
    \/ \E w \in Workers : P2Fold(w)
    \/ P2Return
    \/ Compact
    \/ \E w \in Workers : P3Take(w)
    \/ \E w \in Workers : CiGet(w)
    \/ \E w \in Workers : CiFetchAdd(w)
    \/ \E w \in Workers : CiInsert(w)
    \/ \E w \in Workers : CiReverseInsert(w)
    \/ \E w \in Workers : TsGet(w)
    \/ \E w \in Workers : TsFetchAdd(w)
    \/ \E w \in Workers : TsInsert(w)
    \/ \E w \in Workers : TsReverseInsert(w)
    \/ ppc = "pass3" /\ Materialize
    \/ FinalInterner
    \/ PassesDone
    \/ Create

SpecPreprocess == InitPreprocess /\ [][NextPreprocess]_vars

(***************************************************************************)
(* Specification of a run of main on a PBF without a cache: preprocess,    *)
(* then start_server on what it returned, then queries.                    *)
(***************************************************************************)
\* main: `load_or_preprocess` has returned the elements in the order the
\* reduction of pass 3 left them in, `api::start_server(config, cache, ..)`
ServePreprocessed ==
    /\ ppc = "save"
    /\ lpc = "write"
    /\ app = NoApp
    /\ \E o \in Orders(elements) :
          app' = [elements |-> [i \in DOMAIN o |-> SpatialElement(o[i].el)],
                  tag_sets |-> tag_sets, interner |-> interner]
    /\ UNCHANGED <<request, response, ciVars, siVars, rwVars, p3Vars, caVars, p1Vars, p2Vars, hsVars>>

InitServe ==
    /\ InitPreprocess
    /\ pbf = F_loop

NextServe ==
    \/ NextPreprocess
    \/ ServePreprocessed
    \/ HandleQuery

SpecServe == InitServe /\ [][NextServe]_vars

(***************************************************************************)
(* Specification of the cache: runs of load_or_preprocess on one cache     *)
(* directory, each of which may fail or be killed at any step.             *)
(***************************************************************************)
InitCache ==
    /\ CiInit
    /\ RestIdle
    /\ ppc = "none"
    /\ P1Idle
    /\ RwInit
    /\ P3Idle
    /\ interner = EmptyInterner
    /\ converted = FALSE
    /\ cache_file \in {NoFile, NotZstd}
    /\ lpc = "idle"
    /\ runs = 0
    /\ source_hash = NoHash
    /\ cache_data = NoData
    /\ found = "none"
    /\ outcome = NoOutcome
    /\ runtime \in [drop_interner_map : BOOLEAN]

NextCache ==
    \/ CalcHash
    \/ HashFail
    \/ CacheAbsent
    \/ OpenFail
    \/ LoadHit
    \/ LoadMiss
    \/ Passes
    \/ PassesFail
    \/ Create
    \/ CreateFail
    \/ WriteBlock
    \/ WriteFail
    \/ Finish
    \/ FinishLost
    \/ Return
    \/ Crash
    \/ Reconfigure

SpecCache == InitCache /\ [][NextCache]_vars

(***************************************************************************)
(* C1: every get_or_intern call made with the same string returns the same *)
(* id, under every interleaving.                                           *)
(***************************************************************************)
C1_SameStringSameId ==
    \A p \in returned : \A q \in returned : p[1] = q[1] => p[2] = q[2]

(***************************************************************************)
(* C2: after the conversion, lookup(id) gives back s for every (s, id) a   *)
(* get_or_intern call returned.                                            *)
(***************************************************************************)
C2_LookupRoundTrip ==
    converted => \A p \in returned : Lookup(interner, p[2]) = {p[1]}

(***************************************************************************)
(* C5: a lookup on the read form never waits for an inserter; in           *)
(* particular no state is reached in which a lookup waits for a lock an    *)
(* inserter holds while that inserter waits for a lock the lookup holds.   *)
(***************************************************************************)
Wants(w) ==
    CASE pc[w] = "lk_offsets" -> {"offsets"}
      [] pc[w] = "lk_lengths" -> {"lengths"}
      [] pc[w] = "lk_pool" -> {"pool"}
      [] pc[w] = "si_fast" -> {"map"}
      [] pc[w] = "si_wmap" -> {"map"}
      [] pc[w] = "si_wpool" -> {"pool"}
      [] pc[w] = "si_woffsets" -> {"offsets"}
      [] pc[w] = "si_wlengths" -> {"lengths"}
      [] OTHER -> {}
InLookup(w) == pc[w] \in {"lk_offsets", "lk_lengths", "lk_pool"}
InInsert(w) == pc[w] \in {"si_fast", "si_wmap", "si_wpool", "si_woffsets", "si_wlengths"}
HeldBy(l) == locks[l].writer \cup locks[l].readers

C5_LookupNeverWaits ==
    \A w \in Workers : InLookup(w) => \A l \in Wants(w) : CanRead(l)

C5_NoLockCycle ==
    ~ \E r \in Workers : \E i \in Workers :
         /\ InLookup(r) /\ InInsert(i)
         /\ \E l \in Wants(r) : i \in locks[l].writer
         /\ \E l \in Wants(i) : r \in HeldBy(l)


\* ---------------------------------------------------------------------------
\* Pass 3 (SpecPass3)
\* ---------------------------------------------------------------------------

\* C3: every call of get_tag_set_id with an element-wise equal ordered
\* sequence returns the same tag_set_id, so elements whose records yield the
\* same sequence carry the same tag_set_id.
C3_SameSequenceSameTagSetId ==
    /\ \A p \in ts_returned : \A q \in ts_returned : p[1] = q[1] => p[2] = q[2]
    /\ \A e \in elements : \A f \in elements :
          e.tags = f.tags => e.el.tag_set_id = f.el.tag_set_id

\* C4: for every emitted element, the slice of the materialized flat store
\* addressed by its tag_set_id, unpacked, equals the sequence extracted from
\* its record and passed to get_tag_set_id.
C4_TagSetRoundTrip ==
    materialized =>
        \A e \in elements :
            \E slice \in TagSetsGet(tag_sets, e.el.tag_set_id) : UnpackAll(slice) = e.tags

\* The tags of record r under the configured keys: primary keys first, then
\* attribute keys, each in configuration order.
ConfiguredKeys == config.primary_keys \o config.attribute_keys
HasKey(tags, k) == \E i \in DOMAIN tags : tags[i][1] = k
TagOf(tags, k) == tags[CHOOSE i \in DOMAIN tags : tags[i][1] = k]
RECURSIVE ConfiguredOrder(_, _)
ConfiguredOrder(tags, keys) ==
    IF keys = << >> THEN << >>
    ELSE IF HasKey(tags, Head(keys))
    THEN <<TagOf(tags, Head(keys))>> \o ConfiguredOrder(tags, Tail(keys))
    ELSE ConfiguredOrder(tags, Tail(keys))

\* The pair of ids p stands for the pair of strings t.
Interned(t, p) == <<t[1], p[1]>> \in returned /\ <<t[2], p[2]>> \in returned

\* C6: the sequence extracted from a record lists the configured primary
\* keys' values first, then the configured attribute keys' values, in
\* configuration order whatever the order of the tags on the record; two
\* records with the same configured tags get the same tag_set_id.
C6_ConfigurationOrder ==
    /\ \A e \in elements :
          LET c == ConfiguredOrder(Rec(e.rec).tags, ConfiguredKeys)
          IN  /\ Len(e.tags) = Len(c)
              /\ \A j \in DOMAIN c : Interned(c[j], e.tags[j])
    /\ \A e \in elements : \A f \in elements :
          /\ Rec(e.rec).tags # Rec(f.rec).tags
          /\ ConfiguredOrder(Rec(e.rec).tags, ConfiguredKeys)
                 = ConfiguredOrder(Rec(f.rec).tags, ConfiguredKeys)
          => e.el.tag_set_id = f.el.tag_set_id


\* ---------------------------------------------------------------------------
\* The cache (SpecCache)
\* ---------------------------------------------------------------------------

\* The file was created by a cache write that has not finished its stream.
Unfinished(f) == f.exists /\ f.zstd /\ ~f.ended

\* The file holds a whole envelope in a finished stream.
Complete(f) == f.exists /\ f.zstd /\ f.ended /\ Deserialize(Decode(f)) # {}

\* C7: the file an interrupted or failed cache write leaves at the cache path
\* is never accepted as valid: the run that finds it treats it as a miss and
\* does not return its content as loaded data.
C7_UnfinishedNeverLoaded == found = "valid" => ~Unfinished(cache_file)

\* C8: during a cache store the final path never holds partially written
\* content: it holds the previous file until the new one is complete.
C8_FinalPathNeverPartial == ~Unfinished(cache_file)

\* C9: when the cache file cannot be created or written after the passes
\* succeeded, load_or_preprocess does not fail: no run ends with the error of
\* the creation or of the write.
C9_WriteFailureContinues == outcome.kind = "error" => outcome.err \notin {"create", "write"}

\* C10: a run that finds a cache file it cannot read, decompress or
\* deserialize, or whose fingerprint is not the computed one, and whose
\* passes read the PBF, returns the preprocessed data, not an error and not
\* the file's content, and leaves a complete cache file with the current
\* fingerprint.
C10_BadCacheReprocessed ==
    lpc = "done" /\ found \in {"bad", "unreadable"} /\ outcome.err # "pbf"
    => /\ outcome.kind = "preprocessed"
       /\ Complete(cache_file)
       /\ \A cd \in Deserialize(Decode(cache_file)) : cd.source_hash = source_hash


\* The file at the cache path deserializes and carries the fingerprint the
\* run computed.
CacheValid ==
    /\ cache_file.exists
    /\ \E cd \in Deserialize(Decode(cache_file)) : cd.source_hash = source_hash

\* C11: a run that finds at the cache path a file with the fingerprint of its
\* input and configuration runs no pass and leaves the file as it is; unless
\* the file cannot be opened or the process is killed, it returns the data
\* read from the file.
C11_CacheHit ==
    [][lpc = "hashed" /\ CacheValid
       => /\ cache_file' = cache_file
          /\ lpc' \in {"done", "idle"}
          /\ (lpc' = "done" /\ outcome'.kind # "error"
              => \E cd \in Deserialize(Decode(cache_file)) : outcome' = Owned("loaded", cd))]_vars

\* A second run has loaded the complete cache that the first run wrote.
C11_Witness ==
    /\ runs = 2
    /\ found = "valid"
    /\ outcome.kind = "loaded"
    /\ outcome.data.elements # << >>
    /\ Complete(cache_file)

\* C12: a run that ends with the error of a missing PBF or of a failed pass
\* has left the file at the cache path as it was: no step of the run up to
\* that error creates, truncates or rewrites it.
C12_InputErrorKeepsCache ==
    [][(outcome'.kind = "error" /\ outcome'.err \in {"metadata", "pbf"})
       \/ lpc' \in {"hashed", "passes"}
       => cache_file' = cache_file]_vars

\* A pass failed in a run that found a complete cache of another
\* configuration, and the cache is still complete.
C12_Witness ==
    /\ outcome.kind = "error"
    /\ outcome.err = "pbf"
    /\ found = "bad"
    /\ Complete(cache_file)


\* ---------------------------------------------------------------------------
\* Pass 3: emission (SpecPass3)
\* ---------------------------------------------------------------------------

\* The record carries a tag under a configured primary key.
CarriesPrimary(r) == \E i \in DOMAIN r.tags : r.tags[i][1] \in Range(config.primary_keys)
ElementsOf(r) == {e \in elements : e.rec = r}

\* C13: a node record yields one element iff it carries a tag under a primary
\* key, with the node's id and both endpoints at the node's position (as
\* f32); without one it yields none, whatever else it carries or is
\* referenced by.
C13_NodeEmission ==
    \A r \in Records :
        Rec(r).kind = "node" =>
            LET pos == <<AsF32(Rec(r).lat), AsF32(Rec(r).lon)>>
            IN  /\ ~CarriesPrimary(Rec(r)) => ElementsOf(r) = {}
                /\ Cardinality(ElementsOf(r)) <= 1
                /\ CarriesPrimary(Rec(r)) /\ materialized => Cardinality(ElementsOf(r)) = 1
                /\ \A e \in ElementsOf(r) :
                      e.el.id = Rec(r).id /\ e.el.coordinates = <<pos, pos>>

\* The pass is over: a node with a primary key whose position is no f32 has
\* its element, a node with the attribute key only has none, and so has a
\* node that a matching way references.
C13_Witness ==
    /\ materialized
    /\ \/ \E r \in Records :
             /\ Rec(r).kind = "node" /\ ElementsOf(r) # {}
             /\ AsF32(Rec(r).lat) # Rec(r).lat
             /\ \E q \in Records :
                   Rec(q).kind = "node" /\ Rec(q).tags # << >> /\ ElementsOf(q) = {}
       \/ \E r \in Records : \E q \in Records :
             /\ Rec(r).kind = "way" /\ ElementsOf(r) # {}
             /\ Rec(q).kind = "node" /\ Rec(q).id \in Range(Rec(r).refs)
             /\ ElementsOf(q) = {}

\* The tags of the record under a configured primary or attribute key.
ConfiguredTags(tags) ==
    SelectSeq(tags, LAMBDA tg : tg[1] \in Range(config.primary_keys) \cup Range(config.attribute_keys))

\* C14: the sequence interned for an emitted element has one pair for each
\* tag of its record under a primary or attribute key and no other pair.
C14_TagSetContent ==
    \A e \in elements :
        LET sel == ConfiguredTags(Rec(e.rec).tags)
        IN  /\ Len(e.tags) = Len(sel)
            /\ \E p \in Permutations(1..Len(sel)) :
                  \A j \in 1..Len(sel) : Interned(sel[j], e.tags[p[j]])

\* An element of a record with three tags, one of them under no configured
\* key, carries two pairs.
C14_Witness ==
    \E e \in elements : Len(Rec(e.rec).tags) = 3 /\ Len(e.tags) = 2

\* The consecutive ref pairs of way r for which both lookups succeed.
FoundPairs(r) ==
    {i \in 1..(Len(r.refs) - 1) :
        r.refs[i] \in DOMAIN node_coords /\ r.refs[i + 1] \in DOMAIN node_coords}

\* C15: a way with a primary key and k consecutive ref pairs with both
\* coordinates found yields k elements, one per pair, each with the way's id,
\* the two looked-up positions in ref order and one common tag_set_id; with
\* no such pair, or without a primary key, it yields none.
C15_WayGeometry ==
    \A r \in Records :
        Rec(r).kind = "way" =>
            /\ ~CarriesPrimary(Rec(r)) => ElementsOf(r) = {}
            /\ ElementsOf(r) # {} \/ (materialized /\ CarriesPrimary(Rec(r)))
               => /\ Cardinality(ElementsOf(r)) = Cardinality(FoundPairs(Rec(r)))
                  /\ \A i \in FoundPairs(Rec(r)) :
                        \E e \in ElementsOf(r) :
                            /\ e.seg = i
                            /\ e.el.id = Rec(r).id
                            /\ e.el.coordinates = <<node_coords[Rec(r).refs[i]],
                                                    node_coords[Rec(r).refs[i + 1]]>>
                  /\ \A e \in ElementsOf(r) : \A f \in ElementsOf(r) :
                        e.el.tag_set_id = f.el.tag_set_id

\* The pass is over: one way has two elements, a way with a primary key and
\* a single ref has none.
C15_Witness ==
    /\ materialized
    /\ \E r \in Records : Rec(r).kind = "way" /\ Cardinality(ElementsOf(r)) = 2
    /\ \E r \in Records :
          Rec(r).kind = "way" /\ CarriesPrimary(Rec(r)) /\ ElementsOf(r) = {}

\* C18: two get_tag_set_id calls with different pair sequences never return
\* the same tag_set_id.
C18_TagSetInjective ==
    \A p \in ts_returned : \A q \in ts_returned : p[1] # q[1] => p[2] # q[2]

\* Calls with two different sequences have returned, one of them after a
\* race that left an id without owner.
C18_Witness ==
    /\ \E p \in ts_returned : \E q \in ts_returned : p[1] # q[1]
    /\ tag_set_counter > Cardinality(DOMAIN tag_set_map)

\* C19: after materialization no two entries of the flat store hold the same
\* pair sequence.
C19_FlatStoreDistinct ==
    materialized =>
        \A i \in DOMAIN tag_sets.offsets : \A j \in DOMAIN tag_sets.offsets :
            i # j => TagSetsGet(tag_sets, i - 1) # TagSetsGet(tag_sets, j - 1)


\* ---------------------------------------------------------------------------
\* ConcurrentInterner: injectivity (SpecInterner)
\* ---------------------------------------------------------------------------

\* C17: two get_or_intern calls with distinct strings never return the same
\* id.
C17_InternerInjective ==
    \A p \in returned : \A q \in returned : p[1] # q[1] => p[2] # q[2]

\* Calls with two distinct strings have returned, one of them after a race
\* that left an id without owner.
C17_Witness ==
    /\ \E p \in returned : \E q \in returned : p[1] # q[1]
    /\ ci_next_id > Cardinality(DOMAIN ci_map)


\* ---------------------------------------------------------------------------
\* Cache round trip (SpecCache)
\* ---------------------------------------------------------------------------

\* cd and d agree on everything but the interner's map.
SameButMap(cd, d) ==
    /\ cd.elements = d.elements
    /\ cd.tag_sets = d.tag_sets
    /\ cd.interner.pool = d.interner.pool
    /\ cd.interner.offsets = d.interner.offsets
    /\ cd.interner.lengths = d.interner.lengths

\* C20: what deserializes from the cache file while and after a run writes
\* it is what that run serialized, fingerprint included; a finished file
\* deserializes; and a load returns the elements, tag sets and interner
\* pool / offsets / lengths that deserialize from the file.
C20_CacheRoundTrip ==
    /\ lpc \in {"write", "saved"} =>
          \A cd \in Deserialize(Decode(cache_file)) :
              SameButMap(cd, cache_data) /\ cd.source_hash = cache_data.source_hash
    /\ lpc = "saved" /\ cache_file.ended => Deserialize(Decode(cache_file)) # {}
    /\ outcome.kind = "loaded" =>
          \E cd \in Deserialize(Decode(cache_file)) : SameButMap(outcome.data, cd)

\* A finished file with two elements has been written by one run and loaded
\* by the next, which cleared the interner's map.
C20_Witness ==
    /\ outcome.kind = "loaded"
    /\ cache_file.ended
    /\ Len(outcome.data.elements) = 2
    /\ outcome.data.tag_sets.data # << >>
    /\ outcome.data.interner.map = EmptyMap
    /\ \E cd \in Deserialize(Decode(cache_file)) : cd.interner.map # EmptyMap


\* ---------------------------------------------------------------------------
\* Pass 1: the required-node set (SpecPass1)
\* ---------------------------------------------------------------------------

\* Node n is a record with a primary key, or a way with one references n.
NeededNode(n) ==
    \E r \in Records :
        /\ CarriesPrimary(Rec(r))
        /\ \/ Rec(r).kind = "node" /\ Rec(r).id = n
           \/ Rec(r).kind = "way" /\ n \in Range(Rec(r).refs)

\* every id a record of the file has or references
MentionedIds ==
    UNION {IF Rec(r).kind = "way" THEN Range(Rec(r).refs) ELSE {Rec(r).id} : r \in Records}

\* C16: once pass 1 has returned, whichever worker folded which blob and in
\* whatever order the folds were reduced, an id is in the required set iff
\* its node record carries a primary key or a way carrying a primary key
\* references it.
C16_RequiredNodeSet ==
    \A s \in required_nodes :
        /\ s \subseteq MentionedIds
        /\ \A n \in MentionedIds : n \in s <=> NeededNode(n)

\* Pass 1 has counted nodes and returned a set holding an id that only a
\* way's reference requires.
C16_Witness ==
    \E s \in required_nodes :
        /\ \E n \in s : \A r \in Records :
              Rec(r).kind = "node" /\ Rec(r).id = n => ~CarriesPrimary(Rec(r))
        /\ node_count > 0

\* ---------------------------------------------------------------------------
\* Dropping the interner's map (SpecCache)
\* ---------------------------------------------------------------------------

\* the ids the interner si has assigned
AssignedIds(si) == {si.map[s] : s \in DOMAIN si.map} \cup {i - 1 : i \in DOMAIN si.offsets}

\* C21: when a run returns with runtime.drop_interner_map set, on the
\* cache-hit path and on the fresh-preprocess path, the returned interner has
\* the pool, offsets and lengths it had before the clear, and lookup(id)
\* returns for every assigned id the string it returned before the clear.
C21_DropMapKeepsLookup ==
    [][outcome'.kind \in {"loaded", "preprocessed"} /\ outcome' # outcome
          /\ runtime.drop_interner_map
       => \E cd \in (IF outcome'.kind = "loaded" THEN Deserialize(Decode(cache_file))
                     ELSE {cache_data}) :
             /\ cd.interner.map # EmptyMap
             /\ outcome'.data.interner.map = EmptyMap
             /\ outcome'.data.interner.pool = cd.interner.pool
             /\ outcome'.data.interner.offsets = cd.interner.offsets
             /\ outcome'.data.interner.lengths = cd.interner.lengths
             /\ \A i \in AssignedIds(cd.interner) :
                   /\ Lookup(cd.interner, i) # {}
                   /\ Lookup(outcome'.data.interner, i) = Lookup(cd.interner, i)]_vars

\* A fresh run has returned an interner without map whose lookup still
\* gives the strings.
C21_Witness ==
    /\ runtime.drop_interner_map
    /\ outcome.kind = "preprocessed"
    /\ outcome.data.interner.map = EmptyMap
    /\ Lookup(outcome.data.interner, 0) = {S_highway}
    /\ Lookup(outcome.data.interner, 1) = {S_residential}

\* ---------------------------------------------------------------------------
\* Pass 3: skipped segments (SpecPass3)
\* ---------------------------------------------------------------------------

\* The consecutive ref pairs of way r with a coordinate missing.
MissingPairs(r) ==
    {i \in 1..(Len(r.refs) - 1) :
        r.refs[i] \notin DOMAIN node_coords \/ r.refs[i + 1] \notin DOMAIN node_coords}

RECURSIVE TotalMissing(_)
TotalMissing(rs) ==
    IF rs = {} THEN 0
    ELSE LET r == CHOOSE x \in rs : TRUE
         IN  Cardinality(MissingPairs(Rec(r))) + TotalMissing(rs \ {r})

PrimaryWays == {r \in Records : Rec(r).kind = "way" /\ CarriesPrimary(Rec(r))}

C28_DenseIds ==
    converted =>
        LET n == Cardinality(DOMAIN ci_map)
        IN  /\ Len(interner.offsets) = n
            /\ Len(interner.lengths) = n
            /\ \A i \in 0..(n - 1) : \E s \in DOMAIN ci_map : Lookup(interner, i) = {s}
            /\ \A i \in 0..(n - 1) : \A j \in 0..(n - 1) :
                  i # j => Lookup(interner, i) # Lookup(interner, j)

\* ---------------------------------------------------------------------------
\* Structure of the flat store (SpecPass3)
\* ---------------------------------------------------------------------------

\* C29: after preprocessing, offsets and lengths of the flat store have the
\* same length, every slice lies within data, every element's tag_set_id is
\* below the number of entries, and both ids of every packed pair are below
\* the number of ids of the string interner.
C29_StoreStructure ==
    materialized /\ converted =>
        /\ Len(tag_sets.offsets) = Len(tag_sets.lengths)
        /\ \A i \in DOMAIN tag_sets.offsets :
              tag_sets.offsets[i] + tag_sets.lengths[i] <= Len(tag_sets.data)
        /\ \A e \in elements : e.el.tag_set_id < Len(tag_sets.offsets)
        /\ \A j \in DOMAIN tag_sets.data :
              /\ tag_sets.data[j].hi < Len(interner.offsets)
              /\ tag_sets.data[j].lo < Len(interner.offsets)

\* Preprocessing is over with elements, several entries in the store and the
\* last element's tag_set_id the last entry.
C29_Witness ==
    /\ materialized /\ converted
    /\ Len(tag_sets.offsets) >= 2
    /\ tag_sets.data # << >>
    /\ \E e \in elements : e.el.tag_set_id = Len(tag_sets.offsets) - 1

\* ---------------------------------------------------------------------------
\* The source fingerprint (SpecHash)
\* ---------------------------------------------------------------------------

\* C25: two fingerprints differ when the inputs differ in the path, the
\* size, the modification time, the primary_keys list or the attribute_keys
\* list (a key moved to the other list and a reordered list included), and
\* are equal when they differ in other configuration only.
C25_FingerprintSensitivity ==
    hs_out # << >> =>
        (hs_out[1] = hs_out[2]
            <=> hs_in[1].filters = hs_in[2].filters /\ hs_in[1].meta = hs_in[2].meta)

\* Fingerprints have been computed for two inputs that differ in a key moved
\* from one list to the other only.
C25_Witness ==
    /\ hs_out # << >>
    /\ hs_in[1].meta = hs_in[2].meta
    /\ hs_in[1].other # hs_in[2].other
    /\ hs_in[1].filters = DefaultFilters
    /\ hs_in[2].filters = [primary_keys |-> <<S_highway, S_name>>, attribute_keys |-> << >>]
    /\ hs_out[1] # hs_out[2]

\* ---------------------------------------------------------------------------
\* Query responses (SpecQuery)
\* ---------------------------------------------------------------------------

\* The squared distance from p to the segment from a to b: to the projection
\* of p on the line, clamped to the segment.
SegDist2(p, a, b) ==
    LET v == Sub(b, a)
        w == Sub(p, a)
    IN  IF Dot(v, v) = 0 \/ Dot(w, v) <= 0 THEN Rat(Dot(w, w), 1)
        ELSE IF Dot(w, v) >= Dot(v, v) THEN Rat(Dot(Sub(p, b), Sub(p, b)), 1)
        ELSE Rat(Dot(w, w) * Dot(v, v) - Dot(w, v) * Dot(w, v), Dot(v, v))

\* the distance of a response element from p
ResultDist2(p, re) == SegDist2(p, <<re.lat1, re.lon1>>, <<re.lat2, re.lon2>>)
\* the query point as requested, and as the f32 pair the handler makes of it
ExactPoint(q) == <<q.lat, q.lon>>
F32Point(q) == <<AsF32(q.lat), AsF32(q.lon)>>

\* what identifies an element in a response
Geometry(re) == <<re.id, re.lat1, re.lon1, re.lat2, re.lon2>>
\* the stored elements within the radius of q around p
ScanAll(p, q) ==
    {k \in DOMAIN app.elements :
        LeqRat(SegDist2(p, app.elements[k].from, app.elements[k].to),
               Rat(RadiusDeg(q.radius) * RadiusDeg(q.radius), 1))}

C24_EndpointDegeneracy ==
    \A r \in response : \A i \in DOMAIN r :
        /\ r[i].type \in {"node", "way"}
        /\ r[i].type = "node" <=> (r[i].lat1 = r[i].lat2 /\ r[i].lon1 = r[i].lon2)

\* A response holds a node and a way whose endpoints differ in the longitude
\* only.
C24_Witness ==
    \E r \in response :
        /\ \E i \in DOMAIN r : r[i].type = "node" /\ r[i].tags # EmptyMap
        /\ \E i \in DOMAIN r :
              r[i].type = "way" /\ r[i].lat1 = r[i].lat2 /\ r[i].lon1 # r[i].lon2

\* Every worker result of pass 1 is merged into the set pass 1 returned.
Pass1Merged ==
    /\ required_nodes # {}
    /\ p1_todo = {}
    /\ p1_partials = {}
    /\ \A w \in Workers : p1_frame[w] = NoFold

\* Pass 2 has returned and the map pass 3 reads is the copy of its result.
Pass2Frozen ==
    /\ ppc = "pass3"
    /\ p2_todo = {}
    /\ \A w \in Workers : p2_frame[w] = NoScan
    /\ node_coords = coords

\* Every worker of pass 3 has finished.
Pass3Finished ==
    /\ ppc \in {"pass3", "save"}
    /\ todo = {}
    /\ \A w \in Workers : pc[w] = "idle"

\* C26: a step of a pass-2 worker is taken only when every result of pass 1
\* is merged into the required set, which the step leaves alone; a step of a
\* pass-3 worker only when pass 2 has returned and the coordinate map is
\* frozen, which the step leaves alone; the flat store is materialized and
\* the cache file is written only when every pass-3 worker has finished.
C26_PassOrdering ==
    [][ /\ (p2_frame' # p2_frame \/ coords' # coords \/ coords_stored' # coords_stored)
            => Pass1Merged /\ required_nodes' = required_nodes
        /\ (pc' # pc \/ frame' # frame \/ elements' # elements)
            => Pass2Frozen /\ node_coords' = node_coords
        /\ (materialized' # materialized \/ tag_sets' # tag_sets \/ cache_file' # cache_file)
            => Pass3Finished ]_vars

\* A run went through the three passes, stored segments and skipped some,
\* materialized the store and created the cache file.
C26_Witness ==
    /\ cache_file = Created
    /\ materialized
    /\ elements # {}
    /\ segments_skipped > 0
    /\ coords # EmptyMap
    /\ Cardinality(Required) > 1

\* C30: after pass 2 a warning is emitted iff fewer distinct required ids
\* have a coordinate than there are required ids, and it reports the number
\* of required ids without a coordinate.
C30_CoordinateShortfall ==
    ppc \in {"compact", "pass3", "save"} =>
        LET harvested == Required \cap DOMAIN coords
            missing == Required \ DOMAIN coords
        IN  /\ shortfall # << >> <=> Cardinality(harvested) < Cardinality(Required)
            /\ shortfall # << >> => shortfall = <<Cardinality(missing)>>

\* C32: in every state of the read form under concurrent get_or_intern
\* calls, the ids of the map are 0..n-1 for its n strings, offsets and
\* lengths have n entries, every string a call returned is in the map under
\* the id returned (so equal strings got equal ids), and lookup of the id of
\* every string of the map gives that string.
C32_ReadFormInvariant ==
    LET n == Cardinality(DOMAIN interner.map)
    IN  /\ {interner.map[s] : s \in DOMAIN interner.map} = 0..(n - 1)
        /\ Len(interner.offsets) = n
        /\ Len(interner.lengths) = n
        /\ \A p \in returned : p[1] \in DOMAIN interner.map /\ interner.map[p[1]] = p[2]
        /\ \A p, q \in returned : p[1] = q[1] => p[2] = q[2]
        /\ \A s \in DOMAIN interner.map : Lookup(interner, interner.map[s]) = {s}

\* Two strings are interned, and of two calls for one string that both
\* missed it on the fast path one has inserted it and the other is about to
\* take the write lock.
C32_Witness ==
    /\ Cardinality(DOMAIN interner.map) >= 2
    /\ \E w, v \in Workers :
          /\ w # v
          /\ pc[w] = "si_ret"
          /\ pc[v] = "si_wmap"
          /\ arg[w] = arg[v]
          /\ result[w] = Len(interner.offsets) - 1

====
